---- MODULE Spec2Model ----
(***************************************************************************)
(* notebridge: two-way synchronisation between Joplin (side A, notes kept  *)
(* behind an HTTP API) and an Obsidian vault (side B, Markdown files).     *)
(*                                                                         *)
(* A note body is a sequence of lines.  Every line is a record             *)
(*   [k |-> kind, a |-> Int, b |-> Int, s |-> STRING]                      *)
(* whose kind tells what the regular expressions of the program see:       *)
(*   "hid" "htime" "hsrc" "hver"   <!-- notebridge_xxx: v -->              *)
(*   "yid" "ytime" "ysrc" "yver"   notebridge_xxx: v                       *)
(*   "fence"                       ---                                     *)
(*   "ykey"                        a front-matter key of the user          *)
(*   "blank"                       an empty line                           *)
(*   "text"                        a line of user text                     *)
(*   "arrow"                       a line made of a copies of "-->"        *)
(* A time value is a pair (a, b): a is the instant in clock ticks, b the   *)
(* number of " -->" tails glued to its text (the YAML time pattern of      *)
(* clean_duplicate_sync_info reads the HTML time line with its closing     *)
(* arrow).  Identifiers are positive integers, 0 stands for "no id".       *)
(***************************************************************************)
EXTENDS Integers, Sequences, FiniteSets, TLC

\* ------------------------------------------------------------------ bounds
MaxText == 2
MaxUuid == 4

\* --------------------------------------------------------------- constants
\* the year from which generate_sync_info rewrites the year of the timestamp
ClampYear == 2024
\* number of clock ticks in one year of the model's clock
TicksPerYear == 4
\* the default of notebridge_version when the field is missing
DefaultVersion == 1

\* ----------------------------------------------------------- line records
L(k, a, b, s) == [k |-> k, a |-> a, b |-> b, s |-> s]
Blank == L("blank", 0, 0, "")
Fence == L("fence", 0, 0, "")
Text(n) == L("text", n, 0, "")
YKey(n) == L("ykey", n, 0, "")
Arrow(n) == L("arrow", n, 0, "")

HtmlKinds == {"hid", "htime", "hsrc", "hver"}
YamlKinds == {"yid", "ytime", "ysrc", "yver"}

NoInfo == [id |-> 0, t |-> -1, j |-> 0, src |-> "", ver |-> DefaultVersion]

\* sequence helpers
SeqMap(s, F(_)) == [i \in 1..Len(s) |-> F(s[i])]
SeqOfKind(c, K) == SelectSeq(c, LAMBDA l : l.k \in K)
Tail0(c, i) == IF i > Len(c) THEN << >> ELSE SubSeq(c, i, Len(c))
HasKind(c, K) == \E i \in 1..Len(c) : c[i].k \in K

\* Python compares the time strings lexicographically; '' is below all.
TimeGT(x, y) == x.t > y.t \/ (x.t = y.t /\ x.j > y.j)

\* ---------------------------------------------------------- regex pieces
\* number of blank lines that directly follow line i
RECURSIVE BlankRun(_, _)
BlankRun(c, i) ==
    IF i + 1 <= Len(c) /\ c[i + 1].k = "blank" THEN 1 + BlankRun(c, i + 1) ELSE 0

\* re.sub of the four HTML patterns '<!-- notebridge_xxx: ... -->\s*': the
\* line goes together with the blank lines after it; a time line whose text
\* carries tails leaves them behind ([^>]+ stops at the first '>').
RECURSIVE StripHtml(_, _, _)
StripHtml(c, i, eating) ==
    IF i > Len(c) THEN << >>
    ELSE IF c[i].k \in HtmlKinds
         THEN IF c[i].k = "htime" /\ c[i].b > 0
              THEN <<Arrow(c[i].b)>> \o StripHtml(c, i + 1, FALSE)
              ELSE StripHtml(c, i + 1, TRUE)
         ELSE IF c[i].k = "blank" /\ eating
              THEN StripHtml(c, i + 1, TRUE)
              ELSE <<c[i]>> \o StripHtml(c, i + 1, FALSE)

\* re.sub of the four YAML patterns 'notebridge_xxx: ...\s*\n'
RECURSIVE StripYaml(_, _, _)
StripYaml(c, i, eating) ==
    IF i > Len(c) THEN << >>
    ELSE IF c[i].k \in YamlKinds
         THEN StripYaml(c, i + 1, TRUE)
         ELSE IF c[i].k = "blank" /\ eating
              THEN StripYaml(c, i + 1, TRUE)
              ELSE <<c[i]>> \o StripYaml(c, i + 1, FALSE)

\* re.sub(r'\n\s*\n\s*\n', '\n\n'): a run of blank lines shrinks to one
RECURSIVE CollapseBlanks(_, _)
CollapseBlanks(c, i) ==
    IF i > Len(c) THEN << >>
    ELSE IF c[i].k = "blank" /\ i > 1 /\ c[i - 1].k = "blank"
         THEN CollapseBlanks(c, i + 1)
         ELSE <<c[i]>> \o CollapseBlanks(c, i + 1)

\* re.sub(r'^\s*\n', ''): the blank lines at the head go
RECURSIVE StripLeading(_)
StripLeading(c) ==
    IF c # << >> /\ Head(c).k = "blank" THEN StripLeading(Tail(c)) ELSE c

\* re.sub(r'^-->\s*$', '', MULTILINE): a line that is one lone arrow becomes
\* an empty line and swallows the blank lines after it; at the end of the
\* text it vanishes.
RECURSIVE StripLoneArrow(_, _)
StripLoneArrow(c, i) ==
    IF i > Len(c) THEN << >>
    ELSE IF c[i].k = "arrow" /\ c[i].a = 1
         THEN LET n == BlankRun(c, i)
              IN  IF i + n >= Len(c) THEN << >>
                  ELSE <<Blank>> \o StripLoneArrow(c, i + n + 1)
         ELSE <<c[i]>> \o StripLoneArrow(c, i + 1)

\* r'^---\s*\n(.*?)\n---\s*\n' (DOTALL): the opening fence is line 1; \s* is
\* greedy over the blank lines after it and gives them back one at a time;
\* for each choice the closing fence is the first fence two lines further.
FirstFenceFrom(c, lo) ==
    IF \E i \in lo..Len(c) : c[i].k = "fence"
    THEN CHOOSE i \in lo..Len(c) :
             c[i].k = "fence" /\ \A h \in lo..(i - 1) : c[h].k # "fence"
    ELSE 0
MatchAt(b, close) ==
    [ok |-> close > 0, first |-> IF close > 0 THEN 2 + b ELSE 0, close |-> close]
RECURSIVE YamlMatchFrom(_, _)
YamlMatchFrom(c, b) ==
    IF b = 0 \/ MatchAt(b, FirstFenceFrom(c, 3 + b)).ok
    THEN MatchAt(b, FirstFenceFrom(c, 3 + b))
    ELSE YamlMatchFrom(c, b - 1)
yaml_match(c) ==
    IF c # << >> /\ c[1].k = "fence"
    THEN YamlMatchFrom(c, BlankRun(c, 1))
    ELSE [ok |-> FALSE, first |-> 0, close |-> 0]
\* the lines of group(1) and the text after match.end()
GroupOf(c, m) == SubSeq(c, m.first, m.close - 1)
AfterOf(c, m) == Tail0(c, m.close + BlankRun(c, m.close) + 1)
YamlGroup(c) == GroupOf(c, yaml_match(c))
AfterYaml(c) == AfterOf(c, yaml_match(c))

\* ------------------------------------------------- generate_sync_info
\* datetime.now() with the year replaced by 2024 when it is later
YearOf(now) == ClampYear + (now \div TicksPerYear)
ClampedNow(now) == IF YearOf(now) > ClampYear THEN now % TicksPerYear ELSE now
generate_sync_info(source, uuid, now) ==
    [id |-> uuid, t |-> ClampedNow(now), j |-> 0, src |-> source,
     ver |-> DefaultVersion]

\* ------------------------------------------------- embedding, second half
\* lines 886-912 / 930-956: what both embedders do to the cleaned content
\* before they put the new block in
Filtered(g) == SelectSeq(g, LAMBDA l : l.k \notin YamlKinds)
\* the front matter g put back without its notebridge_ lines, before rest
Refenced(g, rest) ==
    IF g # << >> THEN <<Fence>> \o g \o <<Fence, Blank>> \o rest ELSE rest
DropYamlResidue(c) ==
    IF HasKind(c, YamlKinds) /\ yaml_match(c).ok
    THEN Refenced(Filtered(YamlGroup(c)), AfterYaml(c))
    ELSE c
ScrubResidue(c) ==
    DropYamlResidue(StripLoneArrow(
        IF HasKind(c, HtmlKinds) THEN StripHtml(c, 1, FALSE) ELSE c, 1))

HtmlBlock(m) ==
    << L("hid", m.id, 0, ""), L("htime", m.t, m.j, ""),
       L("hsrc", 0, 0, m.src), L("hver", m.ver, 0, ""), Blank >>
\* yaml.dump sorts the keys: id, source, sync_time, version
YamlBlock(m) ==
    << L("yid", m.id, 0, ""), L("ysrc", 0, 0, m.src),
       L("ytime", m.t, m.j, ""), L("yver", m.ver, 0, "") >>

AddJoplinTail(cleaned, m) == HtmlBlock(m) \o ScrubResidue(cleaned)

\* yaml.safe_load of group(1): a mapping when every line is a key line, a
\* scalar when no line is, a YAMLError when both kinds are mixed
KeyKinds == YamlKinds \cup {"ykey"}
GroupLoad(g) ==
    LET keys == \E i \in 1..Len(g) : g[i].k \in KeyKinds
        rest == \E i \in 1..Len(g) : g[i].k \notin (KeyKinds \cup {"blank"})
    IN  IF keys /\ rest THEN "error"
        ELSE IF keys THEN "dict"
        ELSE IF rest THEN "scalar" ELSE "empty"
\* the user's keys of a mapping as yaml.dump writes them back: once each, in
\* the order of the key names (all of them sort before 'notebridge_')
RECURSIVE SortedKeys(_)
SortedKeys(S) ==
    IF S = {} THEN << >>
    ELSE LET lo == CHOOSE x \in S : \A y \in S : x <= y
         IN  <<YKey(lo)>> \o SortedKeys(S \ {lo})
UserKeys(g) == SortedKeys({g[i].a : i \in {h \in 1..Len(g) : g[h].k = "ykey"}})

\* lines 958-984: the block goes into the front matter g that is there
\* (loaded as load), or in a new one at the head of c
MergeYaml(c, ok, g, load, rest, m) ==
    IF c # << >> /\ c[1].k = "fence" /\ ok /\ load # "error"
    THEN <<Fence>> \o (IF load = "dict" THEN UserKeys(g) ELSE << >>)
         \o YamlBlock(m) \o <<Fence, Blank>> \o rest
    ELSE <<Fence>> \o YamlBlock(m) \o <<Fence, Blank>> \o c
PutYamlBlock(c, m) ==
    MergeYaml(c, yaml_match(c).ok, YamlGroup(c), GroupLoad(YamlGroup(c)),
              AfterYaml(c), m)
AddObsidianTail(cleaned, m) == PutYamlBlock(ScrubResidue(cleaned), m)

\* ------------------------------------------- clean_duplicate_sync_info
joplin_ids(c) == SeqMap(SeqOfKind(c, {"hid"}), LAMBDA l : l.a)
joplin_times(c) ==
    SeqMap(SeqOfKind(c, {"htime"}), LAMBDA l : [t |-> l.a, j |-> 0])
yaml_ids(c) == SeqMap(SeqOfKind(c, {"hid", "yid"}), LAMBDA l : l.a)
yaml_times(c) ==
    SeqMap(SeqOfKind(c, {"htime", "ytime"}),
           LAMBDA l : [t |-> l.a, j |-> IF l.k = "htime" THEN l.b + 1 ELSE l.b])
all_ids(c) == joplin_ids(c) \o yaml_ids(c)
all_times(c) == joplin_times(c) \o yaml_times(c)

RECURSIVE LatestFrom(_, _, _, _)
LatestFrom(ids, times, i, best) ==
    IF i > Len(times) THEN best
    ELSE IF TimeGT(times[i], best)
         THEN LatestFrom(ids, times, i + 1,
                         [t |-> times[i].t, j |-> times[i].j, id |-> ids[i]])
         ELSE LatestFrom(ids, times, i + 1, best)
Latest(c) == LatestFrom(all_ids(c), all_times(c), 1, [t |-> -1, j |-> 0, id |-> 0])

StripAllSync(c) ==
    StripLeading(CollapseBlanks(StripYaml(StripHtml(c, 1, FALSE), 1, FALSE), 1))

\* The inner call of the embedders to clean_duplicate_sync_info sees a text
\* without any id and returns it as it is, so the embedders' second halves
\* are applied directly.
LatestInfo(latest, src) ==
    [id |-> latest.id, t |-> latest.t, j |-> latest.j, src |-> src,
     ver |-> DefaultVersion]
\* lines 115-129: one block with the latest id and time, in the format of
\* the cleaned text
Rebuilt(body, latest) ==
    IF yaml_match(body).ok
    THEN AddObsidianTail(body, LatestInfo(latest, "obsidian"))
    ELSE AddJoplinTail(body, LatestInfo(latest, "joplin"))
clean_duplicate_sync_info(c) ==
    IF Len(all_ids(c)) <= 1 \/ Latest(c).id = 0 THEN c
    ELSE Rebuilt(StripAllSync(c), Latest(c))

add_sync_info_to_joplin_content(c, m) ==
    AddJoplinTail(clean_duplicate_sync_info(c), m)
add_sync_info_to_obsidian_content(c, m) ==
    AddObsidianTail(clean_duplicate_sync_info(c), m)

\* ------------------------------------------------------------ extractors
NoLine == L("", 0, 0, "")
FirstOf(c, kind) == IF HasKind(c, {kind}) THEN SeqOfKind(c, {kind})[1] ELSE NoLine
LastOf(c, kind) ==
    IF HasKind(c, {kind}) THEN SeqOfKind(c, {kind})[Len(SeqOfKind(c, {kind}))]
    ELSE NoLine

\* the four re.search of the HTML comments, each with its first match
HtmlInfo(c) ==
    [id  |-> FirstOf(c, "hid").a,
     t   |-> IF HasKind(c, {"htime"}) THEN FirstOf(c, "htime").a ELSE -1,
     j   |-> 0,
     src |-> FirstOf(c, "hsrc").s,
     ver |-> IF HasKind(c, {"hver"}) THEN FirstOf(c, "hver").a ELSE DefaultVersion]
extract_sync_info_from_joplin(note_body) ==
    HtmlInfo(clean_duplicate_sync_info(note_body))

\* step 1 of extract_sync_info_from_obsidian: the front matter, when it loads
\* as a mapping (a repeated key keeps its last value)
DictInfo(g) ==
    [id  |-> LastOf(g, "yid").a,
     t   |-> IF HasKind(g, {"ytime"}) THEN LastOf(g, "ytime").a ELSE -1,
     j   |-> IF HasKind(g, {"ytime"}) THEN LastOf(g, "ytime").b ELSE 0,
     src |-> LastOf(g, "ysrc").s,
     ver |-> IF HasKind(g, {"yver"}) THEN LastOf(g, "yver").a ELSE DefaultVersion]
YamlInfo(c) ==
    IF yaml_match(c).ok /\ GroupLoad(YamlGroup(c)) = "dict"
    THEN DictInfo(YamlGroup(c)) ELSE NoInfo

\* step 2: each field the front matter left empty is looked for in the HTML
\* comments
Fallback(y, h) ==
    [id  |-> IF y.id # 0 THEN y.id ELSE h.id,
     t   |-> IF y.t # -1 THEN y.t ELSE h.t,
     j   |-> IF y.t # -1 THEN y.j ELSE 0,
     src |-> IF y.src # "" THEN y.src ELSE h.src,
     ver |-> IF y.ver # DefaultVersion THEN y.ver ELSE h.ver]
extract_sync_info_from_obsidian(c) == Fallback(YamlInfo(c), HtmlInfo(c))

\* ------------------------------- clean_duplicate_sync_info_keep_oldest
\* re.sub(r'^---\s*\n\s*---\s*\n', '', MULTILINE): a front matter without a
\* line goes, with the blank lines after it
RECURSIVE DropEmptyYaml(_, _)
DropEmptyYaml(c, i) ==
    IF i > Len(c) THEN << >>
    ELSE IF c[i].k = "fence" /\ i + BlankRun(c, i) + 1 <= Len(c)
            /\ c[i + BlankRun(c, i) + 1].k = "fence"
         THEN DropEmptyYaml(c, i + BlankRun(c, i) + 2
                                 + BlankRun(c, i + BlankRun(c, i) + 1))
         ELSE <<c[i]>> \o DropEmptyYaml(c, i + 1)
\* lines 2423-2432: a new id and a new time, in the format of the text
Renewed(body, uuid, now) ==
    IF yaml_match(body).ok
    THEN add_sync_info_to_obsidian_content(body, generate_sync_info("obsidian", uuid, now))
    ELSE add_sync_info_to_joplin_content(body, generate_sync_info("joplin", uuid, now))
clean_duplicate_sync_info_keep_oldest(c, uuid, now) ==
    Renewed(DropEmptyYaml(StripYaml(StripHtml(c, 1, FALSE), 1, FALSE), 1), uuid, now)

\* ==== state
(***************************************************************************)
(* The two sides, the state file and the commands.                         *)
(*                                                                         *)
(* A name (Joplin title, Obsidian file stem) is a record [t, sfx]: the     *)
(* text t and the suffixes "_..." appended to it, one number each: c for   *)
(* the counter c, IdSuffix + u for the first 8 characters of notebridge id *)
(* u.  A container is a Joplin notebook or an Obsidian folder; every note  *)
(* lies in one (the notebook-less notes and the files of the vault's root  *)
(* are left out).  Instants are clock ticks.                               *)
(***************************************************************************)
\* ------------------------------------------------------------------ bounds
MaxNotes == 2
MaxRuns == 4
MaxUserOps == 1

Containers == {"N1", "N2"}
\* the holding area of both sides (the notebook and the folder of that name)
TrashName == "trash"
\* "b c" is a title that sanitize_filename rewrites, "long" one of more than
\* 100 characters, "long50" its first 50 characters
Titles == {"a", "b c"}
LongTitle == "long"
ShortTitle == "long50"
Directions == {"bidirectional", "joplin_to_obsidian", "obsidian_to_joplin"}

Nm(t) == [t |-> t, sfx |-> << >>]
IdSuffix(u) == 10 + u
\* the line "# <original title>" that get_obsidian_notes puts into the body
Head1 == L("head", 0, 0, "")

\* int(dt.timestamp() * 1000) of an instant; 0 is kept for "no time"
Stamp(t) == t + 1

\* ---------------------------------------------------------------- helpers
RECURSIVE SeqToSet(_)
SeqToSet(s) == IF s = << >> THEN {} ELSE {Head(s)} \cup SeqToSet(Tail(s))
Last(s) == s[Len(s)]
Exists(s, P(_)) == \E i \in 1..Len(s) : P(s[i])
\* a value computed once and used under a name: v = ...; F(v)
Bind(v, F(_)) == F(v)
Bind2(v1, v2, F(_, _)) == F(v1, v2)

\* sanitize_filename on the titles of the model: a blank becomes "_"
SanitizeText(t) == IF t = "b c" THEN "b_c" ELSE t
sanitize_filename(nm) == [nm EXCEPT !.t = SanitizeText(nm.t)]

\* fnmatch.fnmatch on the patterns of the model: a literal name, "*", or
\* "N?", an N and one more character
matches_pattern(text, pattern) ==
    \/ pattern = "*"
    \/ pattern = text
    \/ pattern = "N?" /\ text \in {"N1", "N2"}
MatchesAny(text, patterns) == \E p \in patterns : matches_pattern(text, p)

\* the order in which the two sides list their notes
TextRank(t) ==
    CASE t = "a" -> 1 [] t = "b c" -> 2 [] t = "b_c" -> 3
      [] t = "long" -> 4 [] OTHER -> 5
FolderRank(f) == CASE f = "N1" -> 1 [] f = "N2" -> 2 [] OTHER -> 3
RECURSIVE SuffixBefore(_, _)
SuffixBefore(s, t) ==
    IF s = << >> \/ t = << >> THEN TRUE
    ELSE IF Head(s) # Head(t) THEN Head(s) < Head(t)
    ELSE SuffixBefore(Tail(s), Tail(t))
BaseRank(f) == FolderRank(f.folder) * 10 + TextRank(f.name.t)
PathBefore(f, g) ==
    IF Len(f.name.sfx) # Len(g.name.sfx) THEN Len(f.name.sfx) < Len(g.name.sfx)
    ELSE IF BaseRank(f) # BaseRank(g) THEN BaseRank(f) < BaseRank(g)
    ELSE SuffixBefore(f.name.sfx, g.name.sfx)
RECURSIVE JSeq(_)
JSeq(S) ==
    IF S = {} THEN << >>
    ELSE LET m == CHOOSE x \in S : \A y \in S : x.id <= y.id
         IN  <<m>> \o JSeq(S \ {m})
RECURSIVE OSeq(_)
OSeq(S) ==
    IF S = {} THEN << >>
    ELSE LET m == CHOOSE x \in S : \A y \in S : PathBefore(x, y)
         IN  <<m>> \o OSeq(S \ {m})

Path(f) == [folder |-> f.folder, name |-> f.name]
FileAt(files, p) == CHOOSE f \in files : Path(f) = p
PathExists(files, p) == \E f \in files : Path(f) = p

\* get_unique_filename: the path itself when free, else the first free
\* "<name>_<counter>"
RECURSIVE UniqueFrom(_, _, _)
UniqueFrom(files, p, counter) ==
    LET q == [p EXCEPT !.name.sfx = Append(@, counter)]
    IN  IF PathExists(files, q) THEN UniqueFrom(files, p, counter + 1) ELSE q
get_unique_filename(files, p) ==
    IF PathExists(files, p) THEN UniqueFrom(files, p, 1) ELSE p

JId(n) == extract_sync_info_from_joplin(n.body).id
OId(f) == extract_sync_info_from_obsidian(f.body).id

\* ------------------------------------------------------------------ state
VARIABLES
    jnotes,      \* Joplin: set of [id, title, nb, body, ut]
    notebooks,   \* Joplin: the notebooks that exist
    ofiles,      \* the vault: set of [folder, name, body, mtime]
    cache,       \* .sync_cache.json: [exists, damaged, joplin_notes, obsidian_notes]
    rules,       \* sync_rules of config.json
    clock,       \* the wall clock
    nextUuid,    \* source of uuid.uuid4()
    nextJid,     \* source of the ids Joplin gives to new notes
    pc,          \* the step of the running command, "idle" between commands
    run,         \* how the commands run: [dir, lag, put], the direction flag,
                 \* the delay of the writes behind the command's timestamp,
                 \* and whether Joplin takes the writes to its notes
    snapJ,       \* joplin_notes as fetched by the running command
    snapO,       \* obsidian_notes as fetched by the running command
    answers,     \* what confirm_deletions / confirm_moves returned
    log,         \* the note operations of the running or last command, until the user acts
    runs,        \* commands started
    userOps,     \* actions of the user
    streak,      \* executed passes, all confirmed, since the last outside change
    content,     \* a text handed to the embedders on its own
    given,       \* the metadata record handed to the embedders
    target,      \* the embedder applied to content: "none", "joplin", "obsidian"
    embeds,      \* how many times it was applied
    original,    \* the text before a function of the codec was applied to it
    post,        \* a creation on Joplin run on its own: the function, what
                 \* validate_note_content says of the text, what Joplin answers
                 \* to each request, the requests sent, the answers after which
                 \* another request was sent, and the result
    tree         \* the notebooks of Joplin with their parents, for
                 \* get_or_create_joplin_notebook run on its own: the folders,
                 \* _joplin_notebooks_cache and whether it is younger than 30
                 \* seconds, and what the last call was given and returned

vars == <<jnotes, notebooks, ofiles, cache, rules, clock, nextUuid, nextJid,
          pc, run, snapJ, snapO, answers, log, runs, userOps, streak,
          content, given, target, embeds, original, post, tree>>
embedding == <<content, given, target, embeds, original, post, tree>>

\* ---------------------------------------------------- reading both sides
Skipped(container) == MatchesAny(container, rules.skip_sync)

\* get_joplin_notes: every note outside the skip_sync notebooks
get_joplin_notes(notes) == SelectSeq(JSeq(notes), LAMBDA n : ~Skipped(n.nb))

\* lines 378-437: a file whose title is longer than 100 characters is
\* written again under the first 50 characters of its title, with the old
\* title as a heading after the front matter, and the old file is removed
FrontMatter(c) ==
    IF yaml_match(c).ok
    THEN SubSeq(c, 1, yaml_match(c).close + BlankRun(c, yaml_match(c).close))
    ELSE << >>
RECURSIVE StripTrailing(_)
StripTrailing(c) ==
    IF c # << >> /\ c[Len(c)].k = "blank"
    THEN StripTrailing(SubSeq(c, 1, Len(c) - 1)) ELSE c
WithHeading(c) ==
    Bind(StripTrailing(StripLeading(IF yaml_match(c).ok THEN AfterYaml(c) ELSE c)),
         LAMBDA rest : IF rest # << >> /\ rest[1] = Head1 THEN c
                       ELSE FrontMatter(c) \o <<Head1, Blank>> \o rest)
RECURSIVE ShortFrom(_, _, _)
ShortFrom(files, p, counter) ==
    LET q == [p EXCEPT !.name.sfx = <<counter>>]
    IN  IF PathExists(files, q) THEN ShortFrom(files, p, counter + 1) ELSE q
ShortPath(files, p0) == IF PathExists(files, p0) THEN ShortFrom(files, p0, 1) ELSE p0
Shortened(files, f, now) ==
    [folder |-> f.folder,
     name |-> ShortPath(files, [folder |-> f.folder, name |-> Nm(ShortTitle)]).name,
     body |-> WithHeading(f.body), mtime |-> now]

\* get_obsidian_notes: the notes it returns and the vault it leaves behind
RECURSIVE ScanVault(_, _, _, _)
ScanVault(todo, files, notes, now) ==
    IF todo = << >> THEN [files |-> files, notes |-> notes]
    ELSE IF Skipped(Head(todo).folder)
         THEN ScanVault(Tail(todo), files, notes, now)
    ELSE IF Head(todo).name.t = LongTitle
         THEN Bind(Shortened(files, Head(todo), now), LAMBDA g :
                  ScanVault(Tail(todo), (files \ {Head(todo)}) \cup {g},
                            Append(notes, g), now))
    ELSE ScanVault(Tail(todo), files, Append(notes, Head(todo)), now)
get_obsidian_notes(files, now) == ScanVault(OSeq(files), files, << >>, now)

\* ---------------------------------------------------------- sync rules
apply_sync_rules_joplin(js) ==
    SelectSeq(js, LAMBDA n :
        MatchesAny(n.nb, rules.joplin_to_obsidian_only)
        \/ ~MatchesAny(n.nb, rules.obsidian_to_joplin_only))
apply_sync_rules_obsidian(os) ==
    SelectSeq(os, LAMBDA f :
        MatchesAny(f.folder, rules.obsidian_to_joplin_only)
        \/ ~MatchesAny(f.folder, rules.joplin_to_obsidian_only))

is_empty_note(body) == \A i \in 1..Len(body) : body[i].k = "blank"
\* two contents have the same md5 exactly when the cleaned texts are equal
calculate_content_hash(body) == clean_duplicate_sync_info(body)

\* ------------------------------------------------------- build_id_mapping
\* a Python dict keeps its keys in the order of their first insertion and,
\* for a key set twice, the value of the last assignment
RECURSIVE Distinct(_)
Distinct(ids) ==
    IF ids = << >> THEN << >>
    ELSE LET d == Distinct(SubSeq(ids, 1, Len(ids) - 1))
         IN  IF Last(ids) = 0 \/ Exists(d, LAMBDA u : u = Last(ids))
             THEN d ELSE Append(d, Last(ids))
FirstIdx(ids, u) ==
    CHOOSE i \in 1..Len(ids) : ids[i] = u /\ \A h \in 1..(i - 1) : ids[h] # u
LastIdx(ids, u) ==
    CHOOSE i \in 1..Len(ids) : ids[i] = u /\ \A h \in (i + 1)..Len(ids) : ids[h] # u
IdSet(ids) == {ids[i] : i \in 1..Len(ids)} \ {0}
Pick(s, I) ==
    LET F[i \in 0..Len(s)] ==
            IF i = 0 THEN << >>
            ELSE IF i \in I THEN Append(F[i - 1], s[i]) ELSE F[i - 1]
    IN  F[Len(s)]

build_id_mapping(js, os) ==
    Bind2(SeqMap(js, JId), SeqMap(os, OId), LAMBDA jid, oid :
        [joplin_ids |-> Distinct(jid), obsidian_ids |-> Distinct(oid),
         joplin_by_id |-> [u \in IdSet(jid) |-> js[LastIdx(jid, u)]],
         obsidian_by_id |-> [u \in IdSet(oid) |-> os[LastIdx(oid, u)]],
         unmapped_joplin |-> {i \in 1..Len(js) : jid[i] = 0},
         unmapped_obsidian |-> {i \in 1..Len(os) : oid[i] = 0}])

\* ------------------------------------------------------ the state file
CacheIds(entries) == {entries[i].nid : i \in 1..Len(entries)}
CacheEntry(entries, u) == entries[CHOOSE i \in 1..Len(entries) : entries[i].nid = u]
NoCache == [exists |-> FALSE, damaged |-> FALSE,
            joplin_notes |-> << >>, obsidian_notes |-> << >>]
\* a state file that json.load cannot parse
DamagedCache == [NoCache EXCEPT !.exists = TRUE, !.damaged = TRUE]
\* load_sync_state (lines 1682-1692): None when the file is not there, and
\* None as well when reading it raises
load_sync_state(file) == IF file.exists /\ ~file.damaged THEN file ELSE NoCache

JoplinEntry(u, n) == [nid |-> u, id |-> n.id, title |-> n.title, notebook |-> n.nb]
ObsidianEntry(u, f) == [nid |-> u, title |-> f.name, folder |-> f.folder]
save_sync_state(js, os) ==
    Bind2(SeqMap(js, JId), SeqMap(os, OId), LAMBDA jid, oid :
        [exists |-> TRUE, damaged |-> FALSE,
         joplin_notes |-> SeqMap(Distinct(jid),
             LAMBDA u : JoplinEntry(u, js[LastIdx(jid, u)])),
         obsidian_notes |-> SeqMap(Distinct(oid),
             LAMBDA u : ObsidianEntry(u, os[LastIdx(oid, u)]))])

\* ------------------------------------------------------ smart_match_notes
\* lines 723-741: the pairs by id, in the order of the ids of Obsidian
IdPairs(m) ==
    SeqMap(SelectSeq(m.obsidian_ids, LAMBDA u : u \in DOMAIN m.joplin_by_id),
           LAMBDA u : [joplin |-> m.joplin_by_id[u],
                       obsidian |-> m.obsidian_by_id[u], match_type |-> "id"])
\* lines 743-775: the notes left for the match by content; a note with an id
\* that the state file knows on both sides is left out
\* (Unmatched_WithPaired: the same with the notes paired by id left in;
\* Unmatched_Forgetful: the same without a look at the state file)
Unmatched_Forgetful(ids, others, prev) ==
    {i \in 1..Len(ids) :
        \/ ids[i] = 0
        \/ /\ ids[i] \notin IdSet(others)
           /\ i = LastIdx(ids, ids[i])}
Unmatched_WithPaired(ids, others, prev) ==
    {i \in 1..Len(ids) :
        \/ ids[i] = 0
        \/ /\ ~(prev.exists /\ ids[i] \in CacheIds(prev.joplin_notes)
                            /\ ids[i] \in CacheIds(prev.obsidian_notes))
           /\ i = LastIdx(ids, ids[i])}
Unmatched(ids, others, prev) ==
    {i \in 1..Len(ids) :
        \/ ids[i] = 0
        \/ /\ ids[i] \notin IdSet(others)
           /\ ~(prev.exists /\ ids[i] \in CacheIds(prev.joplin_notes)
                            /\ ids[i] \in CacheIds(prev.obsidian_notes))
           /\ i = LastIdx(ids, ids[i])}
\* the candidates of the match by content with the empty notes among them
NonEmpty_All(notes, I) == I
NonEmpty(notes, I) == {i \in I : ~is_empty_note(notes[i].body)}
\* joplin_hash_map[h]: the last of the Joplin notes HJ with hash h, 0 if none
HashMap(hj, HJ, h) ==
    IF \E i \in HJ : hj[i] = h
    THEN CHOOSE i \in HJ : hj[i] = h /\ \A e \in HJ : hj[e] = h => e <= i
    ELSE 0
\* lines 777-818: jFor[k] is the Joplin note that pairs with file k by content
HashPairs(js, os, jFor) ==
    SeqMap(Pick([k \in 1..Len(os) |-> k], {k \in 1..Len(os) : jFor[k] # 0}),
           LAMBDA k : [joplin |-> js[jFor[k]], obsidian |-> os[k],
                       match_type |-> "content_hash"])
\* lines 820-845
Matching(js, os, m, UJ, UO, jFor) ==
    [matched_pairs |-> IdPairs(m) \o HashPairs(js, os, jFor),
     unmatched_joplin |->
         Pick(js, {i \in UJ \ {jFor[k] : k \in 1..Len(os)} :
                      ~MatchesAny(js[i].nb, rules.obsidian_to_joplin_only)}),
     unmatched_obsidian |->
         Pick(os, {k \in UO : jFor[k] = 0
                      /\ ~MatchesAny(os[k].folder, rules.joplin_to_obsidian_only)})]
MatchByHash(js, os, m, UJ, UO, hj, ho) ==
    Matching(js, os, m, UJ, UO,
             [k \in 1..Len(os) |->
                 IF k \in NonEmpty(os, UO) THEN HashMap(hj, NonEmpty(js, UJ), ho[k])
                 ELSE 0])
MatchById(js, os, prev, jid, oid) ==
    MatchByHash(js, os, build_id_mapping(js, os),
                Unmatched(jid, oid, prev), Unmatched(oid, jid, prev),
                SeqMap(js, LAMBDA n : calculate_content_hash(n.body)),
                SeqMap(os, LAMBDA f : calculate_content_hash(f.body)))
smart_match_notes(js, os, prev) ==
    MatchById(js, os, prev, SeqMap(js, JId), SeqMap(os, OId))

\* ------------------------------------------- find_duplicates_ultra_fast
\* fromisoformat succeeds on a time text without glued tails
Parses(info) == info.t # -1 /\ info.j = 0
SameSyncTime(a, b) == Parses(a) /\ Parses(b) /\ a.t = b.t
Repeats(ids) == {h \in 1..Len(ids) : ids[h] # 0 /\ FirstIdx(ids, ids[h]) # h}
InternalDuplicates(notes, ids, type) ==
    {[joplin |-> notes[FirstIdx(ids, ids[i])], obsidian |-> notes[i],
      duplicate_type |-> type] : i \in Repeats(ids)}
find_duplicates_ultra_fast(js, os) ==
    Bind2(SeqMap(js, JId), SeqMap(os, OId), LAMBDA jid, oid :
        [id_duplicates |->
            InternalDuplicates(js, jid, "joplin_internal")
            \cup InternalDuplicates(os, oid, "obsidian_internal"),
         sync_time_conflicts |->
            {[joplin |-> js[FirstIdx(jid, u)], obsidian |-> os[FirstIdx(oid, u)]] :
                 u \in {v \in IdSet(jid) \cap IdSet(oid) :
                    SameSyncTime(
                        extract_sync_info_from_joplin(js[FirstIdx(jid, v)].body),
                        extract_sync_info_from_obsidian(os[FirstIdx(oid, v)].body))}}])

\* lines 5429-5438: the notes the pass leaves alone
duplicate_joplin_ids(dups) ==
    {d.joplin.id : d \in {e \in dups.id_duplicates :
                             e.duplicate_type = "joplin_internal"}}
    \cup {d.joplin.id : d \in dups.sync_time_conflicts}
duplicate_obsidian_paths(dups) ==
    {Path(d.obsidian) : d \in {e \in dups.id_duplicates :
                                  e.duplicate_type = "obsidian_internal"}}
    \cup {Path(d.obsidian) : d \in dups.sync_time_conflicts}

\* ------------------------------------------ detect_deletions, detect_moves
detect_deletions(js, os, prev) ==
    IF ~prev.exists
    THEN [joplin_deletions |-> << >>, obsidian_deletions |-> << >>]
    ELSE Bind2(SeqMap(js, JId), SeqMap(os, OId), LAMBDA jid, oid :
        [joplin_deletions |->
             SelectSeq(prev.joplin_notes, LAMBDA e : e.nid \notin IdSet(jid)),
         obsidian_deletions |->
             SeqMap(SelectSeq(prev.obsidian_notes, LAMBDA e :
                        e.nid \notin IdSet(oid) /\ e.nid \in IdSet(jid)),
                    LAMBDA e : [nid |-> e.nid, title |-> e.title,
                                folder |-> e.folder,
                                id |-> js[LastIdx(jid, e.nid)].id])])

JoplinMove(e, n) ==
    [notebridge_id |-> e.nid, title |-> n.title, old_notebook |-> e.notebook,
     new_notebook |-> n.nb, joplin_id |-> n.id]
ObsidianMove(e, f, n) ==
    [notebridge_id |-> e.nid, title |-> f.name, old_folder |-> e.folder,
     new_folder |-> f.folder, joplin_id |-> n.id, obsidian_path |-> Path(f)]
detect_moves(js, os, prev) ==
    IF ~prev.exists
    THEN [joplin_moves |-> << >>, obsidian_moves |-> << >>]
    ELSE Bind2(SeqMap(js, JId), SeqMap(os, OId), LAMBDA jid, oid :
        [joplin_moves |->
             SeqMap(SelectSeq(prev.joplin_notes, LAMBDA e :
                        e.nid \in IdSet(jid)
                        /\ e.notebook # js[LastIdx(jid, e.nid)].nb),
                    LAMBDA e : JoplinMove(e, js[LastIdx(jid, e.nid)])),
         obsidian_moves |->
             SeqMap(SelectSeq(prev.obsidian_notes, LAMBDA e :
                        /\ e.nid \in IdSet(oid)
                        /\ e.folder # os[LastIdx(oid, e.nid)].folder
                        /\ e.nid \in IdSet(jid)),
                    LAMBDA e : ObsidianMove(e, os[LastIdx(oid, e.nid)],
                                            js[LastIdx(jid, e.nid)]))])

\* ------------------------------------------------------- the two sides
\* The operations of a command work on a record w: the notes of Joplin (j),
\* its notebooks (nb), the vault (o), the log, and the two id sources.
NoPath == [folder |-> "", name |-> Nm("")]
Op(ph, op, jid, path, ok) ==
    [ph |-> ph, op |-> op, jid |-> jid, path |-> path, ok |-> ok]
Logged(w, e) == [w EXCEPT !.log = Append(@, e)]

\* the instant of the writes of the running command
WriteTime == clock + run.lag

JExists(w, id) == \E n \in w.j : n.id = id
\* requests.put on /notes/<id> answers 200: the note is there and Joplin
\* takes the write
put_ok(w, id) == run.put /\ JExists(w, id)
JNote(w, id) == CHOOSE n \in w.j : n.id = id
\* PUT /notes/<id>: the fields given are set; Joplin stamps the note
PutNote(w, id, field, value) ==
    IF put_ok(w, id)
    THEN [w EXCEPT !.j = (@ \ {JNote(w, id)})
            \cup {[[JNote(w, id) EXCEPT ![field] = value] EXCEPT !.ut = WriteTime]}]
    ELSE w
\* get_or_create_joplin_notebook for a one-level path
get_or_create_joplin_notebook(w, name) == [w EXCEPT !.nb = @ \cup {name}]

update_joplin_note(w, id, body) == PutNote(w, id, "body", body)
move_joplin_note(w, id, notebook) ==
    PutNote(get_or_create_joplin_notebook(w, notebook), id, "nb", notebook)
safe_delete_joplin_note(w, id) ==
    PutNote(get_or_create_joplin_notebook(w, TrashName), id, "nb", TrashName)

\* os.rename keeps the content and the modification time
Rename(w, p, q) ==
    [w EXCEPT !.o = (@ \ {FileAt(w.o, p)})
        \cup {[FileAt(w.o, p) EXCEPT !.folder = q.folder, !.name = q.name]}]
\* move_obsidian_file as it would be if the file stayed where it is
move_obsidian_file_Stay(w, p, folder) == w
move_obsidian_file(w, p, folder) ==
    Rename(w, p, get_unique_filename(w.o, [folder |-> folder, name |-> p.name]))
\* safe_delete_obsidian_file as it would be with os.remove in place of the move
safe_delete_obsidian_file_Erase(w, p) == [w EXCEPT !.o = @ \ {FileAt(@, p)}]
safe_delete_obsidian_file(w, p) ==
    Rename(w, p, get_unique_filename(w.o, [folder |-> TrashName, name |-> p.name]))
\* open(path, 'w'): the file is created or overwritten
WriteFile(w, p, body) ==
    [w EXCEPT !.o = {f \in @ : Path(f) # p}
        \cup {[folder |-> p.folder, name |-> p.name, body |-> body,
               mtime |-> WriteTime]}]

\* ------------------------------------------------- perform_deletion_sync
\* obsidian_id_to_path of lines 2036-2041 and 2109-2114
obsidian_id_to_path(os) ==
    Bind(SeqMap(os, OId), LAMBDA oid :
        [u \in IdSet(oid) |-> Path(os[LastIdx(oid, u)])])

\* lines 2043-2074.  An item is an entry of the state file; it has no key
\* 'notebridge_id', so the file is looked up by the recorded notebook and
\* the sanitized title.
RECURSIVE DeleteObsidianFiles(_, _)
DeleteObsidianFiles(items, w) ==
    IF items = << >> THEN w
    ELSE LET item == Head(items)
             p == [folder |-> item.notebook, name |-> sanitize_filename(item.title)]
         IN  DeleteObsidianFiles(Tail(items),
                 IF PathExists(w.o, p)
                 THEN Logged(safe_delete_obsidian_file(w, p),
                             Op("deletions", "safe_delete_obsidian_file", 0, p, TRUE))
                 ELSE Logged(w, Op("deletions", "safe_delete_obsidian_file", 0, p, FALSE)))

\* lines 2077-2088
RECURSIVE DeleteJoplinNotes(_, _)
DeleteJoplinNotes(items, w) ==
    IF items = << >> THEN w
    ELSE LET item == Head(items)
         IN  DeleteJoplinNotes(Tail(items),
                 IF put_ok(w, item.id)
                 THEN Logged(safe_delete_joplin_note(w, item.id),
                             Op("deletions", "safe_delete_joplin_note", item.id, NoPath, TRUE))
                 ELSE Logged(w, Op("deletions", "safe_delete_joplin_note", item.id, NoPath, FALSE)))

perform_deletion_sync(deletions, w) ==
    DeleteJoplinNotes(deletions.obsidian_deletions,
        IF deletions.joplin_deletions # << >>
        THEN DeleteObsidianFiles(deletions.joplin_deletions,
                 [w EXCEPT !.o = get_obsidian_notes(w.o, WriteTime).files])
        ELSE w)

\* ------------------------------------------------------ perform_move_sync
RECURSIVE MoveObsidianFiles(_, _, _)
MoveObsidianFiles(items, paths, w) ==
    IF items = << >> THEN w
    ELSE LET item == Head(items)
             u == item.notebridge_id
         IN  MoveObsidianFiles(Tail(items), paths,
                 IF u \in DOMAIN paths /\ PathExists(w.o, paths[u])
                 THEN Logged(move_obsidian_file(w, paths[u], item.new_notebook),
                             Op("moves", "move_obsidian_file", item.joplin_id, paths[u], TRUE))
                 ELSE Logged(w, Op("moves", "move_obsidian_file", item.joplin_id, NoPath, FALSE)))

RECURSIVE MoveJoplinNotes(_, _)
MoveJoplinNotes(items, w) ==
    IF items = << >> THEN w
    ELSE LET item == Head(items)
         IN  MoveJoplinNotes(Tail(items),
                 IF put_ok(w, item.joplin_id)
                 THEN Logged(move_joplin_note(w, item.joplin_id, item.new_folder),
                             Op("moves", "move_joplin_note", item.joplin_id,
                                item.obsidian_path, TRUE))
                 ELSE Logged(w, Op("moves", "move_joplin_note", item.joplin_id,
                                   item.obsidian_path, FALSE)))

perform_move_sync(moves, w) ==
    Bind(get_obsidian_notes(w.o, WriteTime), LAMBDA scan :
        MoveJoplinNotes(moves.obsidian_moves,
            IF moves.joplin_moves # << >>
            THEN MoveObsidianFiles(moves.joplin_moves,
                                   obsidian_id_to_path(scan.notes),
                                   [w EXCEPT !.o = scan.files])
            ELSE w))

\* ------------------------------------------------------- matched pairs
\* parse_sync_time of lines 5525-5533
parse_sync_time(info) == IF Parses(info) THEN Stamp(info.t) ELSE 0
\* os.path.getmtime of lines 5515-5518: 0 when the file is gone
obsidian_mtime(w, p) == IF PathExists(w.o, p) THEN Stamp(FileAt(w.o, p).mtime) ELSE 0

\* lines 5568-5577 and 1466-1478: the notebridge_ lines leave the front matter
StripYamlInfo(c) ==
    IF yaml_match(c).ok THEN Refenced(Filtered(YamlGroup(c)), AfterYaml(c)) ELSE c

check_and_fix_sync_headers(c) ==
    IF Len(all_ids(c)) > 1 THEN clean_duplicate_sync_info(c) ELSE c

\* update_obsidian_note: [ok, w]
update_obsidian_note(w, p, body) ==
    IF PathExists(w.o, p)
    THEN [ok |-> TRUE, w |-> WriteFile(w, p, check_and_fix_sync_headers(body))]
    ELSE [ok |-> FALSE, w |-> w]

can_joplin_to_obsidian(dir, notebook) ==
    dir \in {"bidirectional", "joplin_to_obsidian"}
    /\ ~MatchesAny(notebook, rules.obsidian_to_joplin_only)
can_obsidian_to_joplin(dir, folder) ==
    dir \in {"bidirectional", "obsidian_to_joplin"}
    /\ ~MatchesAny(folder, rules.joplin_to_obsidian_only)

\* lines 5537-5556: Joplin's text goes to the file; the metadata is written
\* back to Joplin when the note had none
JoplinToObsidian(jn, p, ji, w) ==
    Bind(update_obsidian_note(w, p,
             add_sync_info_to_obsidian_content(StripHtml(jn.body, 1, FALSE), ji)),
         LAMBDA toO :
            IF toO.ok
            THEN Logged(
                   IF ji.id = 0 /\ JExists(toO.w, jn.id)
                   THEN update_joplin_note(toO.w, jn.id,
                            add_sync_info_to_joplin_content(jn.body, ji))
                   ELSE toO.w,
                   Op("matched", "update_obsidian_note", jn.id, p, TRUE))
            ELSE Logged(w, Op("matched", "update_obsidian_note", jn.id, p, FALSE)))
\* lines 5559-5587: the file's text goes to Joplin; the metadata is written
\* back to the file when it had none
ObsidianToJoplin(jn, of, oi, w) ==
    IF put_ok(w, jn.id)
    THEN Logged(
           Bind(update_joplin_note(w, jn.id,
                    add_sync_info_to_joplin_content(StripYamlInfo(of.body), oi)),
                LAMBDA w1 :
                   IF oi.id = 0
                   THEN update_obsidian_note(w1, Path(of),
                            add_sync_info_to_obsidian_content(of.body, oi)).w
                   ELSE w1),
           Op("matched", "update_joplin_note", jn.id, Path(of), TRUE))
    ELSE Logged(w, Op("matched", "update_joplin_note", jn.id, Path(of), FALSE))
\* Decide as it would be if a change in Joplin won over a change in Obsidian
Decide_JoplinWins(jn, of, ji, oi, joplin_has_changes, obsidian_has_changes, w) ==
    IF joplin_has_changes /\ can_joplin_to_obsidian(run.dir, jn.nb)
    THEN JoplinToObsidian(jn, Path(of), ji, w)
    ELSE IF obsidian_has_changes /\ can_obsidian_to_joplin(run.dir, of.folder)
    THEN ObsidianToJoplin(jn, of, oi, w)
    ELSE Logged(w, Op("matched", "unchanged", jn.id, Path(of), TRUE))
\* lines 5535-5593
Decide(jn, of, ji, oi, joplin_has_changes, obsidian_has_changes, w) ==
    IF joplin_has_changes /\ ~obsidian_has_changes
       /\ can_joplin_to_obsidian(run.dir, jn.nb)
    THEN JoplinToObsidian(jn, Path(of), ji, w)
    ELSE IF obsidian_has_changes /\ ~joplin_has_changes
            /\ can_obsidian_to_joplin(run.dir, of.folder)
    THEN ObsidianToJoplin(jn, of, oi, w)
    ELSE IF joplin_has_changes /\ obsidian_has_changes
    THEN Logged(w, Op("matched", "conflict", jn.id, Path(of), FALSE))
    ELSE Logged(w, Op("matched", "unchanged", jn.id, Path(of), TRUE))
\* lines 5505-5533 for one pair that is neither a duplicate nor barred
SyncPair(pair, w) ==
    Bind2(extract_sync_info_from_joplin(pair.joplin.body),
          extract_sync_info_from_obsidian(pair.obsidian.body), LAMBDA ji, oi :
        Decide(pair.joplin, pair.obsidian, ji, oi,
               Stamp(pair.joplin.ut) > parse_sync_time(ji),
               obsidian_mtime(w, Path(pair.obsidian)) > parse_sync_time(oi), w))

\* lines 5467-5593
RECURSIVE SyncMatched(_, _, _)
SyncMatched(pairs, dups, w) ==
    IF pairs = << >> THEN w
    ELSE LET pair == Head(pairs)
         IN  SyncMatched(Tail(pairs), dups,
               IF pair.joplin.id \in duplicate_joplin_ids(dups)
                  \/ Path(pair.obsidian) \in duplicate_obsidian_paths(dups)
               THEN Logged(w, Op("matched", "skip_duplicate", pair.joplin.id,
                                 Path(pair.obsidian), TRUE))
               ELSE IF ~can_joplin_to_obsidian(run.dir, pair.joplin.nb)
                       /\ ~can_obsidian_to_joplin(run.dir, pair.obsidian.folder)
               THEN Logged(w, Op("matched", "skip_rule", pair.joplin.id,
                                 Path(pair.obsidian), TRUE))
               ELSE SyncPair(pair, w))

\* ------------------------------------------------ sync_joplin_to_obsidian
\* re.sub(r'-->\s*', ''): the lines made of arrows go with the blank lines
\* after them
RECURSIVE DropArrows(_, _, _)
DropArrows(c, i, eating) ==
    IF i > Len(c) THEN << >>
    ELSE IF c[i].k = "arrow" THEN DropArrows(c, i + 1, TRUE)
    ELSE IF c[i].k = "blank" /\ eating THEN DropArrows(c, i + 1, TRUE)
    ELSE <<c[i]>> \o DropArrows(c, i + 1, FALSE)

\* lines 1137-1148
StripJoplinHeader(c) ==
    CollapseBlanks(StripLeading(DropArrows(StripHtml(c, 1, FALSE), 1, FALSE)), 1)

\* lines 1178-1196: the file of the note; a file of another note that is in
\* its place makes it "<name>_<first 8 characters of the id>.md"
TargetPath(files, p, u) ==
    IF PathExists(files, p) /\ OId(FileAt(files, p)) # u
    THEN [p EXCEPT !.name.sfx = Append(@, IdSuffix(u))] ELSE p
\* lines 1198-1230: the file is written, then the metadata goes to Joplin
WriteBoth(note, existing, sync_info, final, w) ==
    Bind(WriteFile([w EXCEPT !.uuid = IF existing.id # 0 THEN @ ELSE @ + 1], final,
                   add_sync_info_to_obsidian_content(
                       IF existing.id # 0 THEN StripJoplinHeader(note.body)
                       ELSE note.body, sync_info)),
         LAMBDA w1 :
            Logged(IF JExists(w1, note.id)
                   THEN update_joplin_note(w1, note.id,
                            add_sync_info_to_joplin_content(note.body, sync_info))
                   ELSE w1,
                   Op("create_obsidian", "sync_joplin_to_obsidian", note.id, final, TRUE)))
\* lines 1127-1239; the result is the record w after the call
sync_joplin_to_obsidian(note, w) ==
    Bind(extract_sync_info_from_joplin(note.body), LAMBDA existing :
    Bind(IF existing.id # 0 THEN existing
         ELSE generate_sync_info("joplin", w.uuid, clock), LAMBDA sync_info :
        WriteBoth(note, existing, sync_info,
                  TargetPath(w.o, [folder |-> note.nb,
                                   name |-> sanitize_filename(note.title)],
                             sync_info.id), w)))

\* lines 5601-5646
RECURSIVE CreateOnObsidian(_, _, _)
CreateOnObsidian(notes, dups, w) ==
    IF notes = << >> THEN w
    ELSE LET note == Head(notes)
         IN  CreateOnObsidian(Tail(notes), dups,
               IF \/ is_empty_note(note.body)
                  \/ note.id \in duplicate_joplin_ids(dups)
                  \/ MatchesAny(note.nb, rules.obsidian_to_joplin_only)
                  \/ extract_sync_info_from_joplin(note.body).src = "obsidian"
               THEN w
               ELSE sync_joplin_to_obsidian(note, w))

\* --------------------------- sync_obsidian_to_joplin_with_notebook_id
\* lines 1453-1488: the metadata and the text of the new Joplin note
ObsidianSyncInfo(existing, fresh) ==
    IF existing.id # 0
    THEN [id  |-> existing.id,
          t   |-> IF existing.t # -1 THEN existing.t ELSE fresh.t,
          j   |-> IF existing.t # -1 THEN existing.j ELSE fresh.j,
          src |-> IF existing.src # "" THEN existing.src ELSE fresh.src,
          ver |-> fresh.ver]
    ELSE fresh
\* lines 1490-1580: the note is posted; a file without metadata gets it
PostNote(note, notebook, existing, sync_info, w) ==
    Logged(
      Bind([w EXCEPT !.j = @ \cup {[id |-> w.jid, title |-> note.name,
                                   nb |-> notebook,
                                   body |-> add_sync_info_to_joplin_content(
                                       IF existing.id # 0
                                       THEN StripLeading(StripHtml(
                                                StripYamlInfo(note.body), 1, FALSE))
                                       ELSE note.body, sync_info),
                                   ut |-> WriteTime]},
                      !.jid = @ + 1,
                      !.uuid = IF existing.id # 0 THEN @ ELSE @ + 1],
           LAMBDA w1 :
              IF existing.id = 0
              THEN WriteFile(w1, Path(note),
                       add_sync_info_to_obsidian_content(note.body, sync_info))
              ELSE w1),
      Op("create_joplin", "sync_obsidian_to_joplin", w.jid, Path(note), TRUE))
sync_obsidian_to_joplin_with_notebook_id(note, notebook, w) ==
    Bind(extract_sync_info_from_obsidian(note.body), LAMBDA existing :
        PostNote(note, notebook, existing,
                 ObsidianSyncInfo(existing,
                                  generate_sync_info("obsidian", w.uuid, clock)), w))

\* lines 5654-5720: the notes that pass the checks, folder by folder in the
\* order in which the folders first appear
CreatableOnJoplin(notes, dups) ==
    SelectSeq(notes, LAMBDA note :
        /\ ~is_empty_note(note.body)
        /\ Path(note) \notin duplicate_obsidian_paths(dups)
        /\ ~MatchesAny(note.folder, rules.joplin_to_obsidian_only)
        /\ extract_sync_info_from_obsidian(note.body).src # "joplin")
RECURSIVE FoldersOf(_)
FoldersOf(notes) ==
    IF notes = << >> THEN << >>
    ELSE LET d == FoldersOf(SubSeq(notes, 1, Len(notes) - 1))
         IN  IF Exists(d, LAMBDA x : x = Last(notes).folder)
             THEN d ELSE Append(d, Last(notes).folder)
RECURSIVE CreateNotes(_, _, _)
CreateNotes(notes, notebook, w) ==
    IF notes = << >> THEN w
    ELSE CreateNotes(Tail(notes), notebook,
             sync_obsidian_to_joplin_with_notebook_id(Head(notes), notebook, w))
RECURSIVE CreateByFolder(_, _, _)
CreateByFolder(folders, notes, w) ==
    IF folders = << >> THEN w
    ELSE CreateByFolder(Tail(folders), notes,
             CreateNotes(SelectSeq(notes, LAMBDA n : n.folder = Head(folders)),
                         Head(folders),
                         get_or_create_joplin_notebook(w, Head(folders))))
CreateOnJoplin(notes, dups, w) ==
    CreateByFolder(FoldersOf(CreatableOnJoplin(notes, dups)),
                   CreatableOnJoplin(notes, dups), w)

\* ---------------------------------------------------- manual_confirm_sync
\* what the user may type at a prompt "[y/n/q/s]"; anything else counts as n
Choices == {"y", "n", "q", "s"}
\* the command's own lines in the log: its start, and a "q" or "s" answer
ManualNote(ph, what) == Op(ph, what, 0, NoPath, TRUE)
\* lines 4745-4779: the direction proposed for a matched pair, by the two
\* sync times compared as strings
Proposed(pair, ji, oi) ==
    IF TimeGT(ji, oi) /\ can_joplin_to_obsidian(run.dir, pair.joplin.nb)
    THEN "joplin_to_obsidian"
    ELSE IF TimeGT(oi, ji) /\ can_obsidian_to_joplin(run.dir, pair.obsidian.folder)
    THEN "obsidian_to_joplin"
    ELSE "none"
\* lines 4796-4821: the confirmed update of one pair
ManualUpdate(pair, direction, w) ==
    IF direction = "joplin_to_obsidian"
    THEN Bind(update_obsidian_note(w, Path(pair.obsidian),
                  check_and_fix_sync_headers(pair.joplin.body)), LAMBDA r :
             Logged(r.w, Op("matched", "update_obsidian_note", pair.joplin.id,
                            Path(pair.obsidian), r.ok)))
    ELSE Logged(update_joplin_note(w, pair.joplin.id,
                    check_and_fix_sync_headers(pair.obsidian.body)),
                Op("matched", "update_joplin_note", pair.joplin.id,
                   Path(pair.obsidian), put_ok(w, pair.joplin.id)))
\* lines 4680-4824: the pairs one by one; "q" and "s" leave the loop
RECURSIVE ConfirmMatched(_, _, _, _)
ConfirmMatched(pairs, i, ans, w) ==
    IF i > Len(pairs) THEN w
    ELSE Bind(Proposed(pairs[i], extract_sync_info_from_joplin(pairs[i].joplin.body),
                       extract_sync_info_from_obsidian(pairs[i].obsidian.body)),
              LAMBDA direction :
                 IF direction = "none" THEN ConfirmMatched(pairs, i + 1, ans, w)
                 ELSE IF ans[i] = "q" THEN Logged(w, ManualNote("matched", "quit"))
                 ELSE IF ans[i] = "s" THEN Logged(w, ManualNote("matched", "skip_all"))
                 ELSE IF ans[i] = "y"
                 THEN ConfirmMatched(pairs, i + 1, ans,
                                     ManualUpdate(pairs[i], direction, w))
                 ELSE ConfirmMatched(pairs, i + 1, ans, w))
\* the id is in the state file on both sides (lines 4873-4878, 4979-4983)
SyncedBefore(u) ==
    /\ load_sync_state(cache).exists
    /\ u \in CacheIds(load_sync_state(cache).joplin_notes)
    /\ u \in CacheIds(load_sync_state(cache).obsidian_notes)
\* lines 4831-4898: the new Joplin notes the command asks about
AskedForObsidian(note, os) ==
    /\ ~is_empty_note(note.body)
    /\ ~MatchesAny(note.nb, rules.obsidian_to_joplin_only)
    /\ ~(JId(note) # 0 /\ SyncedBefore(JId(note)))
    /\ extract_sync_info_from_joplin(note.body).src # "obsidian"
    /\ ~Exists(os, LAMBDA f :
           calculate_content_hash(f.body) = calculate_content_hash(note.body))
\* lines 4831-4930
RECURSIVE ConfirmCreateObsidian(_, _, _, _, _)
ConfirmCreateObsidian(notes, i, ans, os, w) ==
    IF i > Len(notes) THEN w
    ELSE IF ~AskedForObsidian(notes[i], os)
    THEN ConfirmCreateObsidian(notes, i + 1, ans, os, w)
    ELSE IF ans[i] = "q" THEN Logged(w, ManualNote("create_obsidian", "quit"))
    ELSE IF ans[i] = "s" THEN Logged(w, ManualNote("create_obsidian", "skip_all"))
    ELSE IF ans[i] = "y"
    THEN ConfirmCreateObsidian(notes, i + 1, ans, os,
             sync_joplin_to_obsidian(
                 [notes[i] EXCEPT !.body = check_and_fix_sync_headers(@)], w))
    ELSE ConfirmCreateObsidian(notes, i + 1, ans, os, w)
\* joplin_content_hash_map[h] (lines 4666-4668): the last note with hash h
LastWithHash(js, h) ==
    js[CHOOSE i \in 1..Len(js) :
          /\ calculate_content_hash(js[i].body) = h
          /\ \A k \in (i + 1)..Len(js) : calculate_content_hash(js[k].body) # h]
\* lines 4938-5025: the new files the command asks about
AskedForJoplin(note, js) ==
    /\ ~is_empty_note(note.body)
    /\ ~MatchesAny(note.folder, rules.joplin_to_obsidian_only)
    /\ Bind(extract_sync_info_from_obsidian(note.body), LAMBDA info :
          /\ ~(info.id # 0 /\ (SyncedBefore(info.id) \/ info.src = "obsidian"))
          /\ info.src # "joplin")
    /\ ~(/\ Exists(js, LAMBDA n :
               calculate_content_hash(n.body) = calculate_content_hash(note.body))
         /\ JId(LastWithHash(js, calculate_content_hash(note.body))) # 0)
\* lines 4933-5061
RECURSIVE ConfirmCreateJoplin(_, _, _, _, _)
ConfirmCreateJoplin(notes, i, ans, js, w) ==
    IF i > Len(notes) THEN w
    ELSE IF ~AskedForJoplin(notes[i], js)
    THEN ConfirmCreateJoplin(notes, i + 1, ans, js, w)
    ELSE IF ans[i] = "q" THEN Logged(w, ManualNote("create_joplin", "quit"))
    ELSE IF ans[i] = "s" THEN Logged(w, ManualNote("create_joplin", "skip_all"))
    ELSE IF ans[i] = "y"
    THEN ConfirmCreateJoplin(notes, i + 1, ans, js,
             sync_obsidian_to_joplin_with_notebook_id(
                 [notes[i] EXCEPT !.body = check_and_fix_sync_headers(@)],
                 notes[i].folder,
                 get_or_create_joplin_notebook(w, notes[i].folder)))
    ELSE ConfirmCreateJoplin(notes, i + 1, ans, js, w)

\* --------------------------------------------- find_and_remove_duplicates
\* lines 2455-2464: every Joplin note gets a body with new metadata
RECURSIVE CleanJoplinNotes(_, _)
CleanJoplinNotes(notes, w) ==
    IF notes = << >> THEN w
    ELSE CleanJoplinNotes(Tail(notes),
           Logged([update_joplin_note(w, Head(notes).id,
                       clean_duplicate_sync_info_keep_oldest(Head(notes).body,
                                                             w.uuid, clock))
                     EXCEPT !.uuid = @ + 1],
                  Op("clean", "update_joplin_note", Head(notes).id, NoPath,
                     put_ok(w, Head(notes).id))))
\* lines 2467-2478: and so does every file
RECURSIVE CleanObsidianNotes(_, _)
CleanObsidianNotes(notes, w) ==
    IF notes = << >> THEN w
    ELSE CleanObsidianNotes(Tail(notes),
           Logged([WriteFile(w, Path(Head(notes)),
                       clean_duplicate_sync_info_keep_oldest(Head(notes).body,
                                                             w.uuid, clock))
                     EXCEPT !.uuid = @ + 1],
                  Op("clean", "write_file", 0, Path(Head(notes)), TRUE)))
\* lines 2493-2507: of two notes of one side with the same id, as the command
\* read them, the later one goes to the holding area
RECURSIVE TrashJoplinNotes(_, _)
TrashJoplinNotes(notes, w) ==
    IF notes = << >> THEN w
    ELSE TrashJoplinNotes(Tail(notes),
           Logged(safe_delete_joplin_note(w, Head(notes).id),
                  Op("clean", "safe_delete_joplin_note", Head(notes).id, NoPath,
                     put_ok(w, Head(notes).id))))
RECURSIVE TrashObsidianFiles(_, _)
TrashObsidianFiles(notes, w) ==
    IF notes = << >> THEN w
    ELSE TrashObsidianFiles(Tail(notes),
           Logged(safe_delete_obsidian_file(w, Path(Head(notes))),
                  Op("clean", "safe_delete_obsidian_file", 0, Path(Head(notes)), TRUE)))
find_and_remove_duplicates(js, os, w) ==
    TrashObsidianFiles(Pick(os, Repeats(SeqMap(os, OId))),
        TrashJoplinNotes(Pick(js, Repeats(SeqMap(js, JId))),
            CleanObsidianNotes(os, CleanJoplinNotes(js, w))))

\* ---------------------------------------------------------------- Init
NoRules == [skip_sync |-> {}, joplin_to_obsidian_only |-> {},
            obsidian_to_joplin_only |-> {}]
NoAnswers == [deletions |-> "none", moves |-> "none"]

\* no creation is run on its own
NoTree == [folders |-> {}, cached |-> FALSE, cache |-> {}, fresh |-> FALSE,
           nextId |-> 1, path |-> << >>, ret |-> 0, err |-> FALSE]
NoPost == [fn |-> "none", valid |-> TRUE, answers |-> << >>, sent |-> 0,
           retried |-> {}, result |-> "none"]

\* A configuration: config.json with its sync rules, the direction flag of
\* the command line, the delay of the writes, the year of the wall clock
\* (2024, or 2025 where generate_sync_info rewrites it), and whether Joplin
\* takes the writes to its notes.
Env(dir, lag, year, r) ==
    [dir |-> dir, lag |-> lag, year |-> year, rules |-> r, put |-> TRUE]
DefaultEnv == Env("bidirectional", 1, 0, NoRules)
\* Joplin answers every PUT on a note with an error status
OutageEnv == [DefaultEnv EXCEPT !.put = FALSE]
\* the writes land within the tick in which their sync time was taken
PromptEnv == Env("bidirectional", 0, 0, NoRules)
OtherEnvs ==
    {Env("bidirectional", 1, 1, NoRules), Env("bidirectional", 0, 0, NoRules),
     Env("joplin_to_obsidian", 1, 0, NoRules), Env("obsidian_to_joplin", 1, 0, NoRules),
     Env("bidirectional", 1, 0, [NoRules EXCEPT !.obsidian_to_joplin_only = {"N2"}]),
     Env("bidirectional", 1, 0, [NoRules EXCEPT !.skip_sync = {"N2"}]),
     OutageEnv}

\* what the user types: a note of one line of text
UserBody(n) == <<Text(n)>>
NewNote(id, t, nb, now) ==
    [id |-> id, title |-> Nm(t), nb |-> nb, body |-> UserBody(1), ut |-> now]
NewFile(t, folder, n, now) ==
    [folder |-> folder, name |-> Nm(t), body |-> UserBody(n), mtime |-> now]

\* A fresh installation: no state file, at most one note on each side, none
\* of them with metadata.  The default configuration starts from each of
\* them, the other configurations from the one with a note on each side, and
\* the configuration with prompt writes also from a note on one side only.
InitJoplin == {{}} \cup {{NewNote(1, t, "N1", 0)} : t \in Titles}
InitObsidian ==
    {{}} \cup {{NewFile("a", "N1", n, 0)} : n \in 1..MaxText}
         \cup {{NewFile(t, "N1", 1, 0)} : t \in {"b c", LongTitle}}
Installed(e) ==
    /\ rules = e.rules
    /\ run = [dir |-> e.dir, lag |-> e.lag, put |-> e.put]
    /\ clock = 1 + e.year * TicksPerYear
StartedWith(uuid, file) ==
    /\ notebooks = Containers
    /\ cache = file
    /\ nextUuid = uuid
    /\ nextJid = 2
    /\ pc = "idle"
    /\ snapJ = << >>
    /\ snapO = << >>
    /\ answers = NoAnswers
    /\ log = << >>
    /\ runs = 0
    /\ userOps = 0
    /\ streak = 0
Started(uuid) == StartedWith(uuid, NoCache)
Fresh == Started(1)
\* A pair that was synced before, one side of which was put back from an
\* older backup: the same id and text on both sides, the sync time of one side
\* behind that of the other, neither side modified after its own sync time.
Record(t) == [id |-> 1, t |-> t, j |-> 0, src |-> "joplin", ver |-> DefaultVersion]
SyncedNote(t) ==
    [id |-> 1, title |-> Nm("a"), nb |-> "N1",
     body |-> HtmlBlock(Record(t)) \o UserBody(1), ut |-> t]
SyncedFile(t) ==
    [folder |-> "N1", name |-> Nm("a"),
     body |-> <<Fence>> \o YamlBlock(Record(t)) \o <<Fence, Blank>> \o UserBody(1),
     mtime |-> t]
Restored ==
    /\ Installed(PromptEnv)
    /\ \E t \in 0..1 : jnotes = {SyncedNote(t)} /\ ofiles = {SyncedFile(1 - t)}
    /\ Started(2)
Init ==
    /\ \/ /\ Installed(DefaultEnv)
          /\ jnotes \in InitJoplin
          /\ ofiles \in InitObsidian
          /\ Fresh
       \/ /\ \E e \in OtherEnvs : Installed(e)
          /\ jnotes = {NewNote(1, "a", "N1", 0)}
          /\ ofiles = {NewFile("b c", "N1", 1, 0)}
          /\ Fresh
       \/ /\ Installed(PromptEnv)
          /\ \/ jnotes = {NewNote(1, "a", "N1", 0)} /\ ofiles = {}
             \/ jnotes = {} /\ ofiles = {NewFile("a", "N1", 1, 0)}
          /\ Fresh
       \/ Restored
    /\ content = << >>
    /\ given = NoInfo
    /\ target = "none"
    /\ embeds = 0
    /\ original = << >>
    /\ post = NoPost
    /\ tree = NoTree

\* ------------------------------------------------------ plumbing
World == [j |-> jnotes, nb |-> notebooks, o |-> ofiles, log |-> log,
          uuid |-> nextUuid, jid |-> nextJid]
Becomes(w) ==
    /\ jnotes' = w.j
    /\ notebooks' = w.nb
    /\ ofiles' = w.o
    /\ log' = w.log
    /\ nextUuid' = w.uuid
    /\ nextJid' = w.jid

\* what the running pass computed before its first phase (lines 5855-5876)
\* and fetched again at lines 5441-5442
Plan == smart_match_notes(apply_sync_rules_joplin(snapJ),
                          apply_sync_rules_obsidian(snapO), load_sync_state(cache))
Duplicates == find_duplicates_ultra_fast(snapJ, snapO)
current_joplin_notes == snapJ
current_obsidian_notes == OSeq(SeqToSet(snapO))

\* the notes without an id: each may ask uuid4 for one
IdDemand ==
    Cardinality({n \in jnotes : JId(n) = 0}) + Cardinality({f \in ofiles : OId(f) = 0})

\* ------------------------------------------------- the command "sync"
\* __main__, lines 5851-5881: both sides are read (get_obsidian_notes
\* renames the files with long titles), the plan and the duplicate report are
\* made, and the user is asked whether to go on.

\* sync --force, answered "continue"
StartPass ==
    /\ pc = "idle"
    /\ runs < MaxRuns
    /\ nextUuid + IdDemand - 1 <= MaxUuid
    /\ \E scan \in {get_obsidian_notes(ofiles, WriteTime)} :
          /\ ofiles' = scan.files
          /\ snapO' = scan.notes
    /\ snapJ' = get_joplin_notes(jnotes)
    /\ log' = << >>
    /\ answers' = NoAnswers
    /\ runs' = runs + 1
    /\ pc' = "deletions"
    /\ UNCHANGED <<jnotes, notebooks, cache, rules, clock, nextUuid,
                   nextJid, run, userOps, streak, embedding>>

\* a command that reads both sides and stops: only the renaming is left
ReadOnly ==
    /\ pc = "idle"
    /\ ofiles' = get_obsidian_notes(ofiles, WriteTime).files
    /\ clock' = IF ofiles' = ofiles THEN clock ELSE clock + run.lag + 1
    /\ streak' = IF ofiles' = ofiles THEN streak ELSE 0
    /\ UNCHANGED <<jnotes, notebooks, cache, rules, nextUuid, nextJid, pc,
                   run, snapJ, snapO, answers, log, runs, userOps, embedding>>

\* sync --force, answered "cancel": sys.exit(0)
CancelPass == ReadOnly

\* sync without --force (lines 5802-5847), any answer but "clean first"
Preview == ReadOnly

\* the command clean-duplicates (line 5926)
CleanDuplicates ==
    /\ pc = "idle"
    /\ runs < MaxRuns
    /\ \E scan \in {get_obsidian_notes(ofiles, WriteTime)} :
          /\ nextUuid + Len(get_joplin_notes(jnotes)) + Len(scan.notes) - 1 <= MaxUuid
          /\ snapO' = scan.notes
          /\ Becomes(find_and_remove_duplicates(get_joplin_notes(jnotes), scan.notes,
                         [World EXCEPT !.o = scan.files, !.log = << >>]))
    /\ snapJ' = get_joplin_notes(jnotes)
    /\ runs' = runs + 1
    /\ clock' = clock + run.lag + 1
    /\ streak' = 0
    /\ UNCHANGED <<cache, rules, pc, run, answers, userOps, embedding>>

\* execute_bulk_delete (lines 4317-4350): every note of the list goes through
\* safe_delete_obsidian_file
RECURSIVE execute_bulk_delete(_, _)
execute_bulk_delete(notes_to_delete, w) ==
    IF notes_to_delete = << >> THEN w
    ELSE execute_bulk_delete(Tail(notes_to_delete),
             IF PathExists(w.o, Path(Head(notes_to_delete)))
             THEN Logged(safe_delete_obsidian_file(w, Path(Head(notes_to_delete))),
                         Op("bulk", "safe_delete_obsidian_file", 0,
                            Path(Head(notes_to_delete)), TRUE))
             ELSE Logged(w, Op("bulk", "safe_delete_obsidian_file", 0,
                               Path(Head(notes_to_delete)), FALSE)))
joplin_imported_notes(os) ==
    SelectSeq(os, LAMBDA f : extract_sync_info_from_obsidian(f.body).src = "joplin")

\* the command clean-all-joplin-imports (lines 5150-5217), answered
\* "DELETE ALL": the notes of the vault marked notebridge_source: joplin are
\* deleted in bulk
CleanAllJoplinImports ==
    /\ pc = "idle"
    /\ runs < MaxRuns
    /\ \E scan \in {get_obsidian_notes(ofiles, WriteTime)} :
          /\ joplin_imported_notes(scan.notes) # << >>
          /\ snapO' = scan.notes
          /\ Becomes(execute_bulk_delete(joplin_imported_notes(scan.notes),
                         [World EXCEPT !.o = scan.files, !.log = << >>]))
    /\ snapJ' = << >>
    /\ runs' = runs + 1
    /\ clock' = clock + run.lag + 1
    /\ streak' = 0
    /\ UNCHANGED <<cache, rules, pc, run, answers, userOps, embedding>>

PassFrame ==
    UNCHANGED <<cache, rules, clock, run, snapJ, snapO, runs, userOps, streak, embedding>>

\* lines 5443-5452
Answer(asked, accept) == IF ~asked THEN "none" ELSE IF accept THEN "yes" ELSE "no"
\* the deletions carried out whatever the answer
DeletionPhase_Ungated(accept) ==
    /\ pc = "deletions"
    /\ \E deletions \in {detect_deletions(current_joplin_notes,
                                          current_obsidian_notes,
                                          load_sync_state(cache))} :
       \E asked \in {deletions.joplin_deletions # << >>
                      \/ deletions.obsidian_deletions # << >>} :
          /\ asked \/ ~accept
          /\ answers' = [answers EXCEPT !.deletions = Answer(asked, accept)]
          /\ Becomes(IF asked THEN perform_deletion_sync(deletions, World)
                     ELSE World)
    /\ pc' = "moves"
    /\ PassFrame
\* a declined deletion ends the pass
DeletionPhase_Abort(accept) ==
    /\ pc = "deletions"
    /\ \E deletions \in {detect_deletions(current_joplin_notes,
                                          current_obsidian_notes,
                                          load_sync_state(cache))} :
       \E asked \in {deletions.joplin_deletions # << >>
                      \/ deletions.obsidian_deletions # << >>} :
          /\ asked \/ ~accept
          /\ answers' = [answers EXCEPT !.deletions = Answer(asked, accept)]
          /\ Becomes(IF asked /\ accept THEN perform_deletion_sync(deletions, World)
                     ELSE World)
          /\ pc' = IF asked /\ ~accept THEN "save" ELSE "moves"
    /\ PassFrame
DeletionPhase(accept) ==
    /\ pc = "deletions"
    /\ \E deletions \in {detect_deletions(current_joplin_notes,
                                          current_obsidian_notes,
                                          load_sync_state(cache))} :
       \E asked \in {deletions.joplin_deletions # << >>
                      \/ deletions.obsidian_deletions # << >>} :
          /\ asked \/ ~accept
          /\ answers' = [answers EXCEPT !.deletions = Answer(asked, accept)]
          /\ Becomes(IF asked /\ accept THEN perform_deletion_sync(deletions, World)
                     ELSE World)
    /\ pc' = "moves"
    /\ PassFrame

\* lines 5455-5464
MovePhase(accept) ==
    /\ pc = "moves"
    /\ \E moves \in {detect_moves(current_joplin_notes,
                                  current_obsidian_notes, load_sync_state(cache))} :
       \E asked \in {moves.joplin_moves # << >> \/ moves.obsidian_moves # << >>} :
          /\ asked \/ ~accept
          /\ answers' = [answers EXCEPT !.moves = Answer(asked, accept)]
          /\ Becomes(IF asked /\ accept THEN perform_move_sync(moves, World)
                     ELSE World)
    /\ pc' = "matched"
    /\ PassFrame

\* the pass as it would be if a failed update ended the work on the notes
MatchedPhase_Abort ==
    /\ pc = "matched"
    /\ Becomes(SyncMatched(Plan.matched_pairs, Duplicates, World))
    /\ pc' = IF \E i \in 1..Len(log') : ~log'[i].ok THEN "save"
             ELSE "create_obsidian"
    /\ UNCHANGED answers
    /\ PassFrame
\* lines 5467-5598
MatchedPhase ==
    /\ pc = "matched"
    /\ Becomes(SyncMatched(Plan.matched_pairs, Duplicates, World))
    /\ pc' = "create_obsidian"
    /\ UNCHANGED answers
    /\ PassFrame

\* the two creation blocks in the other order
CreateObsidianPhase_JoplinFirst ==
    /\ pc = "create_obsidian"
    /\ \E created \in {IF run.dir \in {"bidirectional", "obsidian_to_joplin"}
                       THEN CreateOnJoplin(Plan.unmatched_obsidian, Duplicates, World)
                       ELSE World} :
          Becomes(IF run.dir \in {"bidirectional", "joplin_to_obsidian"}
                  THEN CreateOnObsidian(Plan.unmatched_joplin, Duplicates, created)
                  ELSE created)
    /\ pc' = "create_joplin"
    /\ UNCHANGED answers
    /\ PassFrame

\* lines 5601-5651
CreateObsidianPhase ==
    /\ pc = "create_obsidian"
    /\ Becomes(IF run.dir \in {"bidirectional", "joplin_to_obsidian"}
               THEN CreateOnObsidian(Plan.unmatched_joplin, Duplicates, World)
               ELSE World)
    /\ pc' = "create_joplin"
    /\ UNCHANGED answers
    /\ PassFrame

\* lines 5654-5725
CreateJoplinPhase ==
    /\ pc = "create_joplin"
    /\ Becomes(IF run.dir \in {"bidirectional", "obsidian_to_joplin"}
               THEN CreateOnJoplin(Plan.unmatched_obsidian, Duplicates, World)
               ELSE World)
    /\ pc' = "save"
    /\ UNCHANGED answers
    /\ PassFrame

\* line 5728: the snapshot taken before the phases goes to the state file
SavePhase ==
    /\ pc = "save"
    /\ cache' = save_sync_state(current_joplin_notes, current_obsidian_notes)
    /\ clock' = clock + run.lag + 1
    /\ streak' = IF "no" \in {answers.deletions, answers.moves} THEN 0
                 ELSE IF streak < 2 THEN streak + 1 ELSE 2
    /\ pc' = "idle"
    /\ UNCHANGED <<jnotes, notebooks, ofiles, rules, nextUuid, nextJid, run,
                   snapJ, snapO, answers, log, runs, userOps, embedding>>

\* ------------------------------------------- the command "sync-manual"
\* manual_confirm_sync (lines 4608-5080): both sides are read and matched,
\* then the user is asked about every note, phase by phase
ManualStart ==
    /\ pc = "idle"
    /\ runs < MaxRuns
    /\ nextUuid + IdDemand - 1 <= MaxUuid
    /\ \E scan \in {get_obsidian_notes(ofiles, WriteTime)} :
          /\ ofiles' = scan.files
          /\ snapO' = scan.notes
    /\ log' = <<ManualNote("manual", "start")>>
    /\ snapJ' = get_joplin_notes(jnotes)
    /\ answers' = NoAnswers
    /\ runs' = runs + 1
    /\ pc' = "manual_matched"
    /\ UNCHANGED <<jnotes, notebooks, cache, rules, clock, nextUuid,
                   nextJid, run, userOps, streak, embedding>>
ManualMatched ==
    /\ pc = "manual_matched"
    /\ \E ans \in [1..Len(Plan.matched_pairs) -> Choices] :
          Becomes(ConfirmMatched(Plan.matched_pairs, 1, ans, World))
    /\ pc' = "manual_create_obsidian"
    /\ UNCHANGED answers
    /\ PassFrame
ManualCreateObsidian ==
    /\ pc = "manual_create_obsidian"
    /\ \E ans \in [1..Len(Plan.unmatched_joplin) -> Choices] :
          Becomes(IF run.dir \in {"bidirectional", "joplin_to_obsidian"}
                  THEN ConfirmCreateObsidian(Plan.unmatched_joplin, 1, ans,
                                             apply_sync_rules_obsidian(snapO), World)
                  ELSE World)
    /\ pc' = "manual_create_joplin"
    /\ UNCHANGED answers
    /\ PassFrame
ManualCreateJoplin ==
    /\ pc = "manual_create_joplin"
    /\ \E ans \in [1..Len(Plan.unmatched_obsidian) -> Choices] :
          Becomes(IF run.dir \in {"bidirectional", "obsidian_to_joplin"}
                  THEN ConfirmCreateJoplin(Plan.unmatched_obsidian, 1, ans,
                                           apply_sync_rules_joplin(snapJ), World)
                  ELSE World)
    /\ clock' = clock + run.lag + 1
    /\ streak' = 0
    /\ pc' = "idle"
    /\ UNCHANGED <<cache, rules, run, snapJ, snapO, answers, runs, userOps, embedding>>

\* ------------------------------------------------------------- the user
\* Between two commands the user works in Joplin and in Obsidian.  Joplin
\* stamps user_updated_time on every change; a file keeps its modification
\* time when it is moved and gets a new one when it is written.
UserFrame ==
    /\ pc = "idle"
    /\ userOps < MaxUserOps
    /\ userOps' = userOps + 1
    /\ clock' = clock + 1
    /\ streak' = 0
    /\ log' = << >>
    /\ UNCHANGED <<cache, rules, nextUuid, pc, run, snapJ, snapO, answers, runs,
                   embedding>>

\* the user's text of a body changes, the other lines stay
Retype(body, n) == SeqMap(body, LAMBDA l : IF l.k = "text" THEN Text(n) ELSE l)

UserCreateJoplin(t, nb) ==
    /\ UserFrame
    /\ Cardinality(jnotes) < MaxNotes
    /\ jnotes' = jnotes \cup {NewNote(nextJid, t, nb, clock)}
    /\ nextJid' = nextJid + 1
    /\ UNCHANGED <<notebooks, ofiles>>

UserEditJoplin(note, n) ==
    /\ UserFrame
    /\ Retype(note.body, n) # note.body
    /\ jnotes' = (jnotes \ {note})
                 \cup {[note EXCEPT !.body = Retype(@, n), !.ut = clock]}
    /\ UNCHANGED <<notebooks, ofiles, nextJid>>

UserMoveJoplin(note, nb) ==
    /\ UserFrame
    /\ nb # note.nb
    /\ jnotes' = (jnotes \ {note}) \cup {[note EXCEPT !.nb = nb, !.ut = clock]}
    /\ UNCHANGED <<notebooks, ofiles, nextJid>>

UserDeleteJoplin(note) ==
    /\ UserFrame
    /\ jnotes' = jnotes \ {note}
    /\ UNCHANGED <<notebooks, ofiles, nextJid>>

UserCreateObsidian(t, folder) ==
    /\ UserFrame
    /\ Cardinality(ofiles) < MaxNotes
    /\ ~PathExists(ofiles, [folder |-> folder, name |-> Nm(t)])
    /\ ofiles' = ofiles \cup {NewFile(t, folder, 1, clock)}
    /\ UNCHANGED <<jnotes, notebooks, nextJid>>

UserEditObsidian(f, n) ==
    /\ UserFrame
    /\ Retype(f.body, n) # f.body
    /\ ofiles' = (ofiles \ {f})
                 \cup {[f EXCEPT !.body = Retype(@, n), !.mtime = clock]}
    /\ UNCHANGED <<jnotes, notebooks, nextJid>>

UserMoveObsidian(f, folder) ==
    /\ UserFrame
    /\ folder # f.folder
    /\ ~PathExists(ofiles, [folder |-> folder, name |-> f.name])
    /\ ofiles' = (ofiles \ {f}) \cup {[f EXCEPT !.folder = folder]}
    /\ UNCHANGED <<jnotes, notebooks, nextJid>>

UserDeleteObsidian(f) ==
    /\ UserFrame
    /\ ofiles' = ofiles \ {f}
    /\ UNCHANGED <<jnotes, notebooks, nextJid>>

\* the user duplicates a file, front matter included
UserCopyObsidian(f) ==
    /\ UserFrame
    /\ Cardinality(ofiles) <= MaxNotes
    /\ LET p == get_unique_filename(ofiles, Path(f))
       IN  ofiles' = ofiles \cup {[f EXCEPT !.name = p.name, !.mtime = clock]}
    /\ UNCHANGED <<jnotes, notebooks, nextJid>>

\* the state file is damaged from outside: it is there, and json.load
\* raises on it
DamageStateFile ==
    /\ pc = "idle"
    /\ userOps < MaxUserOps
    /\ ~cache.damaged
    /\ cache' = DamagedCache
    /\ userOps' = userOps + 1
    /\ clock' = clock + 1
    /\ streak' = 0
    /\ log' = << >>
    /\ UNCHANGED <<jnotes, notebooks, ofiles, rules, nextUuid, nextJid, pc, run,
                   snapJ, snapO, answers, runs, embedding>>

User ==
    \/ \E t \in Titles, nb \in Containers : UserCreateJoplin(t, nb)
    \/ \E note \in jnotes, n \in 1..MaxText : UserEditJoplin(note, n)
    \/ \E note \in jnotes, nb \in Containers : UserMoveJoplin(note, nb)
    \/ \E note \in jnotes : UserDeleteJoplin(note)
    \/ \E t \in Titles, folder \in Containers : UserCreateObsidian(t, folder)
    \/ \E f \in ofiles, n \in 1..MaxText : UserEditObsidian(f, n)
    \/ \E f \in ofiles, folder \in Containers : UserMoveObsidian(f, folder)
    \/ \E f \in ofiles : UserDeleteObsidian(f)
    \/ \E f \in ofiles : UserCopyObsidian(f)
    \/ DamageStateFile

Pass ==
    \/ StartPass
    \/ CleanDuplicates
    \/ CleanAllJoplinImports
    \/ CancelPass
    \/ Preview
    \/ \E accept \in BOOLEAN : DeletionPhase(accept)
    \/ \E accept \in BOOLEAN : MovePhase(accept)
    \/ MatchedPhase
    \/ CreateObsidianPhase
    \/ CreateJoplinPhase
    \/ SavePhase

Next == User \/ Pass

Spec == Init /\ [][Next]_vars

\* the user and the command sync-manual
Manual ==
    \/ ManualStart
    \/ ManualMatched
    \/ ManualCreateObsidian
    \/ ManualCreateJoplin
NextManual == User \/ Manual
SpecManual == Init /\ [][NextManual]_vars

\* ------------------------------------------- the embedders on their own
\* add_sync_info_to_joplin_content and add_sync_info_to_obsidian_content are
\* applied, once and again, to a text and a metadata record drawn from the
\* sets below; nothing else runs.
MaxFiller == 2
MaxEmbeds == 2
FillerLines == {Text(1), Blank, Fence, YKey(1)}
Fillers == UNION {[1..n -> FillerLines] : n \in 0..MaxFiller}
\* a valid record as generate_sync_info makes them: an id, a time that
\* parses, a source and the version 1
Infos ==
    {[id |-> i, t |-> t, j |-> 0, src |-> s, ver |-> DefaultVersion] :
        i \in 1..2, t \in 1..2, s \in {"joplin", "obsidian"}}
\* the text may already hold a block, in either format
OldInfo == [id |-> 2, t |-> 1, j |-> 0, src |-> "joplin", ver |-> DefaultVersion]
Blocks == {<< >>, HtmlBlock(OldInfo), <<Fence>> \o YamlBlock(OldInfo) \o <<Fence, Blank>>}
InitCodec ==
    /\ Installed(DefaultEnv)
    /\ jnotes = {}
    /\ ofiles = {}
    /\ Fresh
    /\ \E block \in Blocks, filler \in Fillers : content = block \o filler
    /\ given \in Infos
    /\ target = "none"
    /\ embeds = 0
    /\ original = content
    /\ post = NoPost
    /\ tree = NoTree
EmbedFrame ==
    /\ embeds < MaxEmbeds
    /\ embeds' = embeds + 1
    /\ UNCHANGED <<jnotes, notebooks, ofiles, cache, rules, clock, nextUuid, nextJid,
                   pc, run, snapJ, snapO, answers, log, runs, userOps, streak,
                   given, original, post, tree>>
EmbedJoplin ==
    /\ target \in {"none", "joplin"}
    /\ content' = add_sync_info_to_joplin_content(content, given)
    /\ target' = "joplin"
    /\ EmbedFrame
EmbedObsidian ==
    /\ target \in {"none", "obsidian"}
    /\ content' = add_sync_info_to_obsidian_content(content, given)
    /\ target' = "obsidian"
    /\ EmbedFrame
NextCodec == EmbedJoplin \/ EmbedObsidian
SpecCodec == InitCodec /\ [][NextCodec]_vars

\* ---------------------------------- clean_duplicate_sync_info on its own
\* clean_duplicate_sync_info is applied to a text that holds two metadata
\* records, in the HTML format, in the YAML format or one of each, before a
\* line of the user's text.
YamlFront(m) == <<Fence>> \o YamlBlock(m) \o <<Fence, Blank>>
TwoRecords(m1, m2) ==
    {HtmlBlock(m1) \o HtmlBlock(m2),
     YamlFront(m1) \o HtmlBlock(m2),
     HtmlBlock(m1) \o YamlFront(m2),
     <<Fence>> \o YamlBlock(m1) \o YamlBlock(m2) \o <<Fence, Blank>>}
InitCollapse ==
    /\ Installed(DefaultEnv)
    /\ jnotes = {}
    /\ ofiles = {}
    /\ Fresh
    /\ \E m1 \in Infos, m2 \in Infos : \E two \in TwoRecords(m1, m2) :
           content = two \o UserBody(1)
    /\ original = content
    /\ post = NoPost
    /\ tree = NoTree
    /\ given = NoInfo
    /\ target = "none"
    /\ embeds = 0
Collapse ==
    /\ target = "none"
    /\ content' = clean_duplicate_sync_info(content)
    /\ target' = "clean"
    /\ UNCHANGED <<jnotes, notebooks, ofiles, cache, rules, clock, nextUuid, nextJid,
                   pc, run, snapJ, snapO, answers, log, runs, userOps, streak,
                   given, embeds, original, post, tree>>
NextCollapse == Collapse
SpecCollapse == InitCollapse /\ [][NextCollapse]_vars

\* ------------------------------------------------ the pass under sync rules
\* config.json with one pattern at most in each list of sync_rules, a note
\* in Joplin and a file in the vault, not yet synced, or a pair synced
\* before the rules were written, whose Joplin note was edited since
RuleSets ==
    {[skip_sync |-> s, joplin_to_obsidian_only |-> j, obsidian_to_joplin_only |-> o] :
        s \in {{}, {"N2"}}, j \in {{}, {"N1"}, {"N?"}}, o \in {{}, {"N2"}, {"*"}}}
InitRules ==
    /\ \E r \in RuleSets : Installed(Env("bidirectional", 1, 0, r))
    /\ \/ /\ jnotes = {NewNote(1, "a", "N1", 0)}
          /\ ofiles = {NewFile("b c", "N1", 1, 0)}
          /\ Fresh
       \/ /\ jnotes = {[SyncedNote(0) EXCEPT !.body = Retype(@, 2), !.ut = 1]}
          /\ ofiles = {SyncedFile(1)}
          /\ StartedWith(2, save_sync_state(<<SyncedNote(0)>>, <<SyncedFile(1)>>))
    /\ content = << >>
    /\ given = NoInfo
    /\ target = "none"
    /\ embeds = 0
    /\ original = << >>
    /\ post = NoPost
    /\ tree = NoTree
SpecRules == InitRules /\ [][Next]_vars

\* ------------------------------------------------- the matching on its own
\* The command reads two sides that hold up to two notes each: empty ones,
\* ones of blank lines only, ones with text, and ones that carry metadata
\* with or without text; smart_match_notes is applied to what was read.
JoplinBodies ==
    {<< >>, <<Blank>>, UserBody(1), HtmlBlock(Record(0)),
     HtmlBlock(Record(0)) \o <<Blank>>, HtmlBlock(Record(0)) \o UserBody(1)}
ObsidianBodies ==
    {<< >>, <<Blank>>, UserBody(1), <<Fence>> \o YamlBlock(Record(0)) \o <<Fence>>,
     <<Fence>> \o YamlBlock(Record(0)) \o <<Fence, Blank>>,
     <<Fence>> \o YamlBlock(Record(0)) \o <<Fence, Blank>> \o UserBody(1)}
InitMatch ==
    /\ Installed(DefaultEnv)
    /\ \E b1 \in JoplinBodies, B2 \in {{}} \cup {{b} : b \in JoplinBodies} :
          jnotes = {[NewNote(1, "a", "N1", 0) EXCEPT !.body = b1]}
                   \cup {[NewNote(2, "b c", "N1", 0) EXCEPT !.body = b] : b \in B2}
    /\ \E b1 \in ObsidianBodies, B2 \in {{}} \cup {{b} : b \in ObsidianBodies} :
          ofiles = {[NewFile("a", "N1", 1, 0) EXCEPT !.body = b1]}
                   \cup {[NewFile("b c", "N1", 1, 0) EXCEPT !.body = b] : b \in B2}
    /\ StartedWith(1, NoCache)
    /\ content = << >>
    /\ given = NoInfo
    /\ target = "none"
    /\ embeds = 0
    /\ original = << >>
    /\ post = NoPost
    /\ tree = NoTree
NextMatch == StartPass
SpecMatch == InitMatch /\ [][NextMatch]_vars

\* ------------------------------------------ the creation on Joplin on its own
\* sync_obsidian_to_joplin_with_notebook_id and
\* safe_sync_obsidian_to_joplin_with_retry are run on one file of the vault;
\* Joplin's answers to the successive POST /notes are given beforehand.
max_retries == 2
\* a status code of the response, or the exception requests.post raises
Answers == {"200", "408", "504", "500", "timeout", "connection", "error"}
Creators == {"sync_obsidian_to_joplin_with_notebook_id",
             "safe_sync_obsidian_to_joplin_with_retry"}
InitRetry ==
    /\ Installed(DefaultEnv)
    /\ jnotes = {}
    /\ ofiles \in {{NewFile("a", "N1", 1, 0)}, {SyncedFile(0)}}
    /\ Fresh
    /\ content = << >>
    /\ original = << >>
    /\ given = NoInfo
    /\ target = "none"
    /\ embeds = 0
    /\ \E fn \in Creators, valid \in BOOLEAN,
          replies \in [1..(max_retries + 1) -> Answers] :
           post = [NoPost EXCEPT !.fn = fn, !.valid = valid, !.answers = replies]
    /\ tree = NoTree
RetryFrame ==
    UNCHANGED <<cache, rules, clock, pc, run, snapJ, snapO, answers, runs, userOps,
                streak, content, given, target, embeds, original, tree>>
\* the request is sent and answered a; the turn ends in a result, or goes on
\* to the next turn when again holds
Turn(a, again, created) ==
    /\ post' = [post EXCEPT !.sent = @ + 1,
                            !.retried = IF a # "200" /\ again THEN @ \cup {a} ELSE @,
                            !.result = IF a = "200" THEN "success"
                                       ELSE IF again THEN "none" ELSE "failure"]
    /\ Becomes(IF a = "200" THEN created ELSE [World EXCEPT !.uuid = @ + 1])
\* one turn of the loop of lines 1449-1585
PostWithNotebookId ==
    /\ post.fn = "sync_obsidian_to_joplin_with_notebook_id"
    /\ post.result = "none"
    /\ post.sent < max_retries + 1
    /\ \E note \in ofiles :
          Turn(post.answers[post.sent + 1],
               /\ post.sent < max_retries
               /\ post.answers[post.sent + 1] \in {"408", "504", "timeout", "connection"},
               sync_obsidian_to_joplin_with_notebook_id(note, note.folder, World))
    /\ RetryFrame
\* lines 2636-2651: the note is posted with the text that
\* clean_duplicate_sync_info_keep_oldest and clean_content_for_joplin made of
\* the file; nothing is written back to the file
SafePosted(note, w) ==
    Logged([w EXCEPT !.j = @ \cup {[id |-> w.jid, title |-> note.name,
                                    nb |-> note.folder,
                                    body |-> CollapseBlanks(
                                        clean_duplicate_sync_info_keep_oldest(
                                            note.body, w.uuid, clock), 1),
                                    ut |-> WriteTime]},
                       !.jid = @ + 1, !.uuid = @ + 1],
           Op("create_joplin", "safe_sync_obsidian_to_joplin", w.jid, Path(note), TRUE))
\* lines 2605-2607: a text that validate_note_content refuses ends the call
\* before the loop
SafeRefuse ==
    /\ post.fn = "safe_sync_obsidian_to_joplin_with_retry"
    /\ post.result = "none"
    /\ post.sent = 0
    /\ ~post.valid
    /\ post' = [post EXCEPT !.result = "skipped"]
    /\ UNCHANGED <<jnotes, notebooks, ofiles, log, nextUuid, nextJid>>
    /\ RetryFrame
\* one turn of the loop of lines 2626-2682
SafePost ==
    /\ post.fn = "safe_sync_obsidian_to_joplin_with_retry"
    /\ post.result = "none"
    /\ post.valid
    /\ post.sent < max_retries
    /\ \E note \in ofiles :
          Turn(post.answers[post.sent + 1], post.sent + 1 < max_retries,
               SafePosted(note, World))
    /\ RetryFrame
NextRetry == PostWithNotebookId \/ SafeRefuse \/ SafePost
SpecRetry == InitRetry /\ [][NextRetry]_vars

\* ------------------------------------ the notebooks of Joplin on their own
\* A folder of Joplin is [id, title, parent], parent 0 at the top.  A key of
\* the dict of notebooks is a sequence of names: the listing files a folder
\* under its title alone (line 1287), get_or_create_joplin_notebook looks a
\* level up under its full path (lines 1327-1334).
MaxFolders == 4
NotebookPaths == {<<"A">>, <<"A", "B">>, <<"B">>}
Listings == {"200", "500", "raises"}
Lookup(all, key) ==
    IF \E e \in all : e.key = key THEN (CHOOSE e \in all : e.key = key).id ELSE 0
Put(all, key, id) == {e \in all : e.key # key} \cup {[key |-> key, id |-> id]}
\* the dicts that the loop of lines 1285-1289 can build from a listing: of the
\* folders of one title, the one listed last stays
ListedDicts(folders) ==
    LET titles == {f.title : f \in folders}
    IN  {{[key |-> <<t>>, id |-> pick[t]] : t \in titles} :
            pick \in {q \in [titles -> {f.id : f \in folders}] :
                         \A t \in titles : \E f \in folders : f.id = q[t] /\ f.title = t}}
\* get_all_joplin_notebooks: the dict it returns and what it leaves in the
\* cache.  A cache younger than 30 seconds is returned as it is; a status
\* other than 200 ends the loop with an empty dict, which is cached; an
\* exception of requests.get returns an empty dict and leaves the cache.
get_all_joplin_notebooks(t, listing, listed) ==
    IF t.cached /\ t.fresh THEN [all |-> t.cache, t |-> t]
    ELSE IF listing = "raises" THEN [all |-> {}, t |-> t]
    ELSE LET all == IF listing = "200" THEN listed ELSE {}
         IN  [all |-> all, t |-> [t EXCEPT !.cached = TRUE, !.cache = all, !.fresh = TRUE]]
\* the loop of lines 1323-1366 from level i on: a level that the dict holds
\* gives the parent of the next; a level it does not hold is created with
\* POST /folders and filed in the dict and in the cache, and with no cache
\* the assignment of line 1352 raises after the folder was created
RECURSIVE Levels(_, _, _, _, _)
Levels(path, i, parent, all, t) ==
    IF i > Len(path) THEN [t EXCEPT !.ret = parent, !.err = FALSE]
    ELSE LET key == SubSeq(path, 1, i)
             made == [t EXCEPT !.folders = @ \cup {[id |-> t.nextId, title |-> path[i],
                                                   parent |-> parent]},
                               !.nextId = @ + 1]
         IN  IF Lookup(all, key) # 0
             THEN Levels(path, i + 1, Lookup(all, key), all, t)
             ELSE IF ~t.cached THEN [made EXCEPT !.ret = 0, !.err = TRUE]
             ELSE Levels(path, i + 1, t.nextId, Put(all, key, t.nextId),
                         [made EXCEPT !.cache = Put(@, key, t.nextId)])
TreeFrame ==
    UNCHANGED <<jnotes, notebooks, ofiles, cache, rules, clock, nextUuid, nextJid,
                pc, run, snapJ, snapO, answers, log, runs, userOps, streak,
                content, given, target, embeds, original, post>>
InitTree ==
    /\ Installed(DefaultEnv)
    /\ jnotes = {}
    /\ ofiles = {}
    /\ Fresh
    /\ content = << >>
    /\ original = << >>
    /\ given = NoInfo
    /\ target = "none"
    /\ embeds = 0
    /\ post = NoPost
    /\ tree \in {NoTree,
                 [NoTree EXCEPT !.folders = {[id |-> 1, title |-> "A", parent |-> 0]},
                                !.nextId = 2]}
\* one call of get_or_create_joplin_notebook (lines 1316-1367)
GetOrCreateNotebook(path, listing) ==
    /\ tree.nextId + Len(path) - 1 <= MaxFolders
    /\ \E listed \in ListedDicts(tree.folders) :
          LET got == get_all_joplin_notebooks(tree, listing, listed)
          IN  tree' = Levels(path, 1, 0, got.all, [got.t EXCEPT !.path = path])
    /\ TreeFrame
\* 30 seconds pass
CacheAges ==
    /\ tree.cached /\ tree.fresh
    /\ tree' = [tree EXCEPT !.fresh = FALSE]
    /\ TreeFrame
\* the program ends and is started again: the module globals are None
NewProcess ==
    /\ tree.cached
    /\ tree' = [tree EXCEPT !.cached = FALSE, !.cache = {}, !.fresh = FALSE]
    /\ TreeFrame
NextTree ==
    \/ \E path \in NotebookPaths, listing \in Listings : GetOrCreateNotebook(path, listing)
    \/ CacheAges
    \/ NewProcess
SpecTree == InitTree /\ [][NextTree]_vars

\* ============================================================ properties

(***************************************************************************)
(* The properties                                                          *)
(***************************************************************************)
\* the operations that change a note, and those of a log that were carried out
NoteOps ==
    {"safe_delete_obsidian_file", "safe_delete_joplin_note", "move_obsidian_file",
     "move_joplin_note", "update_obsidian_note", "update_joplin_note",
     "sync_joplin_to_obsidian", "sync_obsidian_to_joplin"}
Performed(l) == {i \in 1..Len(l) : l[i].op \in NoteOps /\ l[i].ok}
PassDone ==
    /\ pc = "idle"
    /\ runs > 0
    /\ \A i \in 1..Len(log) : log[i].ph \notin {"clean", "manual"}

\* C1 -- Idempotence: a pass that directly follows an executed pass with all
\* confirmations accepted, with no change from outside in between, carries
\* out no create, update, move or delete operation.
C1_Idempotence == (PassDone /\ streak = 2) => Performed(log) = {}

\* the ids carried by more than one note of a side
JoplinClashes == {n \in jnotes : JId(n) > 0 /\ \E m \in jnotes : m # n /\ JId(m) = JId(n)}
ObsidianClashes == {f \in ofiles : OId(f) > 0 /\ \E g \in ofiles : g # f /\ OId(g) = OId(f)}

\* C2 -- No duplication: when an executed pass has completed, no two current
\* notes of Joplin carry the same notebridge_id and no two current notes of
\* Obsidian carry the same notebridge_id.
C2_NoDuplication == pc = "save" => (JoplinClashes = {} /\ ObsidianClashes = {})

\* the notes the running or last command fetched that carried an id then, and
\* the pairs the command created
JoplinIdKept ==
    \A i \in 1..Len(snapJ) : \A n \in jnotes :
        (JId(snapJ[i]) > 0 /\ n.id = snapJ[i].id) => JId(n) = JId(snapJ[i])
ObsidianIdKept ==
    \A i \in 1..Len(snapO) : \A f \in ofiles :
        (OId(snapO[i]) > 0 /\ Path(f) = Path(snapO[i])) => OId(f) = OId(snapO[i])
CounterpartIdKept ==
    \A i \in 1..Len(log) : \A n \in jnotes : \A f \in ofiles :
        (/\ log[i].op \in {"sync_joplin_to_obsidian", "sync_obsidian_to_joplin"}
         /\ log[i].ok /\ n.id = log[i].jid /\ Path(f) = log[i].path)
        => JId(n) = OId(f)

\* C3 -- Identity stability: a note that carried a notebridge_id when a
\* command of the engine fetched it carries the same id after every operation
\* of that command (a pass or the duplicate cleanup), and a counterpart the
\* command created carries the id of the note it was created from.
C3_IdentityStability == JoplinIdKept /\ ObsidianIdKept /\ CounterpartIdKept

\* the matched pairs whose two sides both changed since the sync time each
\* of them records
BothChanged(pairs) ==
    {i \in 1..Len(pairs) :
        /\ Stamp(pairs[i].joplin.ut)
             > parse_sync_time(extract_sync_info_from_joplin(pairs[i].joplin.body))
        /\ Stamp(pairs[i].obsidian.mtime)
             > parse_sync_time(extract_sync_info_from_obsidian(pairs[i].obsidian.body))}
Overwrites(pair) ==
    {i \in 1..Len(log) :
        /\ log[i].ph = "matched"
        /\ log[i].op \in {"update_obsidian_note", "update_joplin_note"}
        /\ (log[i].jid = pair.joplin.id \/ log[i].path = Path(pair.obsidian))}
Reported(pair) ==
    \E i \in 1..Len(log) :
        /\ log[i].ph = "matched" /\ log[i].op = "conflict"
        /\ log[i].jid = pair.joplin.id /\ log[i].path = Path(pair.obsidian)

\* C4 -- Conflict safety: once the matched-pair phase of a pass has run, a
\* matched pair whose Joplin note and whose Obsidian file were both modified
\* after the sync time each records has seen no update_obsidian_note and no
\* update_joplin_note.
C4_ConflictSafety ==
    pc = "create_obsidian" =>
        LET pairs == Plan.matched_pairs
        IN  \A i \in BothChanged(pairs) : Overwrites(pairs[i]) = {}
C4_Witness ==
    /\ pc = "create_obsidian"
    /\ LET pairs == Plan.matched_pairs
       IN  \E i \in BothChanged(pairs) : Reported(pairs[i])

\* the ids the state file knows on both sides that one side has lost since,
\* as the running pass saw them when it started
SnapJoplinIds == {JId(snapJ[i]) : i \in 1..Len(snapJ)} \ {0}
SnapObsidianIds == {OId(snapO[i]) : i \in 1..Len(snapO)} \ {0}
Paired == CacheIds(cache.joplin_notes) \cap CacheIds(cache.obsidian_notes)
GoneFromJoplin == (Paired \cap SnapObsidianIds) \ SnapJoplinIds
GoneFromObsidian == (Paired \cap SnapJoplinIds) \ SnapObsidianIds
HeldOnObsidian(u) ==
    /\ \E f \in ofiles : OId(f) = u
    /\ \A f \in ofiles : OId(f) = u => f.folder = TrashName
HeldOnJoplin(u) ==
    /\ \E n \in jnotes : JId(n) = u
    /\ \A n \in jnotes : JId(n) = u => n.nb = TrashName
\* the deletions carried out on a note that is not the counterpart of a note
\* the other side has lost since the state file was written
StrayDeletions ==
    {i \in 1..Len(log) :
        /\ log[i].ph = "deletions" /\ log[i].ok
        /\ ~ \E k \in 1..Len(snapO) :
               /\ Path(snapO[k]) = log[i].path
               /\ OId(snapO[k]) \in CacheIds(cache.joplin_notes) \ SnapJoplinIds
        /\ ~ \E k \in 1..Len(snapJ) :
               /\ snapJ[k].id = log[i].jid
               /\ JId(snapJ[k]) \in CacheIds(cache.obsidian_notes) \ SnapObsidianIds}

\* C5 -- Deletion mirroring: when a pass whose deletion phase was confirmed
\* has run its phases, every note whose id the state file records on both
\* sides and that one side had lost when the pass started is, on the other
\* side, in the holding area and nowhere else, and the deletion phase of such
\* a pass moved no note but the counterparts of lost notes.
C5_DeletionMirroring ==
    (pc = "save" /\ answers.deletions = "yes") =>
        /\ \A u \in GoneFromJoplin : HeldOnObsidian(u)
        /\ \A u \in GoneFromObsidian : HeldOnJoplin(u)
        /\ GoneFromJoplin \cup GoneFromObsidian # {} => StrayDeletions = {}

\* the deletions the running or last command carried out
Deletions ==
    {i \in 1..Len(log) :
        log[i].op \in {"safe_delete_obsidian_file", "safe_delete_joplin_note"} /\ log[i].ok}
\* what the user wrote in a body: the lines that are no metadata, fence or blank
UserText(body) == SelectSeq(body, LAMBDA l : l.k \in {"text", "ykey"})
\* the note a deletion removed is in the holding area of its side, with the
\* text it had when the command fetched it
HeldBack(e) ==
    IF e.op = "safe_delete_joplin_note"
    THEN \E n \in jnotes :
            /\ n.id = e.jid /\ n.nb = TrashName
            /\ \A k \in 1..Len(snapJ) :
                   snapJ[k].id = e.jid => UserText(n.body) = UserText(snapJ[k].body)
    ELSE \E f \in ofiles :
            /\ f.folder = TrashName /\ f.name.t = e.path.name.t
            /\ \A k \in 1..Len(snapO) :
                   Path(snapO[k]) = e.path => UserText(f.body) = UserText(snapO[k].body)
\* no side holds fewer notes than the command fetched from it
NoneLost ==
    /\ \A k \in 1..Len(snapJ) : \E n \in jnotes : n.id = snapJ[k].id
    /\ Cardinality(ofiles) >= Cardinality({Path(snapO[k]) : k \in 1..Len(snapO)})

\* C6 -- Soft delete only: while a command runs, and after it until the user
\* acts, every note the command deleted (deletion phase or duplicate cleanup)
\* is in the holding area of its side with its text, and neither side holds
\* fewer notes, live and held together, than when the command started.
C6_SoftDeleteOnly ==
    (pc # "idle" \/ log # << >>) =>
        /\ \A i \in Deletions : HeldBack(log[i])
        /\ NoneLost
C6_Witness ==
    /\ pc = "save"
    /\ \E i \in Deletions : log[i].op = "safe_delete_obsidian_file" /\ HeldBack(log[i])

\* the metadata blocks of a text, counted by their id lines
MetadataBlocks(c) == Cardinality({i \in 1..Len(c) : c[i].k \in {"hid", "yid"}})

\* C7 -- Metadata round trip and idempotence: what extract_sync_info_from_joplin
\* reads from a text embedded by add_sync_info_to_joplin_content, and what
\* extract_sync_info_from_obsidian reads from a text embedded by
\* add_sync_info_to_obsidian_content, is the record that was embedded (id, sync
\* time, source, version); after the same embed was applied twice the text
\* holds exactly one metadata block.
C7_RoundTrip ==
    /\ target = "joplin" => extract_sync_info_from_joplin(content) = given
    /\ target = "obsidian" => extract_sync_info_from_obsidian(content) = given
    /\ embeds = 2 => MetadataBlocks(content) = 1

\* the phase a note operation belongs to by its kind: 1 deletion, 2 move,
\* 3 matched-pair propagation, 4 creation on Obsidian, 5 creation on Joplin
PhaseRank(e) ==
    CASE e.op \in {"safe_delete_joplin_note", "safe_delete_obsidian_file"} -> 1
      [] e.op \in {"move_joplin_note", "move_obsidian_file"} -> 2
      [] e.op = "sync_joplin_to_obsidian" -> 4
      [] e.op = "sync_obsidian_to_joplin" -> 5
      [] OTHER -> 3
\* the phase the pass has reached
PassRank ==
    CASE pc = "deletions" -> 0
      [] pc = "moves" -> 1
      [] pc = "matched" -> 2
      [] pc = "create_obsidian" -> 3
      [] pc = "create_joplin" -> 4
      [] OTHER -> 5

\* C8 -- Fixed phase order: in the operations of one pass every deletion comes
\* before every move, every move before every matched-pair propagation, every
\* propagation before every creation on Obsidian and every one of those before
\* every creation on Joplin; while the pass runs no operation of a phase it
\* has not reached has been performed.
C8_PhaseOrder ==
    (pc \notin {"idle"} \/ PassDone) =>
        /\ \A i, k \in 1..Len(log) :
               i < k => PhaseRank(log[i]) <= PhaseRank(log[k])
        /\ \A i \in 1..Len(log) : PhaseRank(log[i]) <= PassRank
C8_Witness ==
    /\ pc = "save"
    /\ \E i, k \in 1..Len(log) :
          /\ i < k
          /\ PhaseRank(log[i]) = 4 /\ PhaseRank(log[k]) = 5
    /\ \E i \in 1..Len(log) : PhaseRank(log[i]) <= 2

\* the log holds the operations of a pass, not those of a cleanup command
PassLog == \A i \in 1..Len(log) : log[i].ph \notin {"clean", "bulk", "manual"}
\* the operations of one phase in the log
OfPhase(r) == {i \in 1..Len(log) : PhaseRank(log[i]) = r}
\* the new Joplin notes the creation on Obsidian does not pass over
CreatableOnObsidian(notes, dups) ==
    SelectSeq(notes, LAMBDA note :
        /\ ~is_empty_note(note.body)
        /\ note.id \notin duplicate_joplin_ids(dups)
        /\ ~MatchesAny(note.nb, rules.obsidian_to_joplin_only)
        /\ extract_sync_info_from_joplin(note.body).src # "obsidian")
\* the phases after the two gated ones did their work: one outcome for every
\* matched pair, one creation for every new note that is to be created
LaterPhasesRan ==
    LET plan == Plan
        dups == Duplicates
        toObsidian == CreatableOnObsidian(plan.unmatched_joplin, dups)
        toJoplin == CreatableOnJoplin(plan.unmatched_obsidian, dups)
    IN  /\ Cardinality(OfPhase(3)) = Len(plan.matched_pairs)
        /\ run.dir \in {"bidirectional", "joplin_to_obsidian"} =>
               \A k \in 1..Len(toObsidian) :
                   \E i \in OfPhase(4) : log[i].jid = toObsidian[k].id
        /\ run.dir \in {"bidirectional", "obsidian_to_joplin"} =>
               \A k \in 1..Len(toJoplin) :
                   \E i \in OfPhase(5) : log[i].path = Path(toJoplin[k])

C9_WitnessMoves ==
    /\ pc = "save"
    /\ answers.moves = "no"
    /\ OfPhase(2) = {}
    /\ OfPhase(3) \cup OfPhase(4) \cup OfPhase(5) # {}

\* a pair the resolver is to decide freely: both directions are open
Bidirectional(pair) ==
    /\ run.dir = "bidirectional"
    /\ ~MatchesAny(pair.joplin.nb,
                   rules.joplin_to_obsidian_only \cup rules.obsidian_to_joplin_only)
    /\ ~MatchesAny(pair.obsidian.folder,
                   rules.joplin_to_obsidian_only \cup rules.obsidian_to_joplin_only)
\* each side against the sync time recorded in its own note, as the pass read
\* them
a_changed(pair) ==
    Stamp(pair.joplin.ut) > parse_sync_time(extract_sync_info_from_joplin(pair.joplin.body))
b_changed(pair) ==
    Stamp(pair.obsidian.mtime)
        > parse_sync_time(extract_sync_info_from_obsidian(pair.obsidian.body))
\* what the matched phase logged for the pair
Outcomes(pair) ==
    {i \in OfPhase(3) : log[i].jid = pair.joplin.id /\ log[i].path = Path(pair.obsidian)}
OneOutcome(pair, op) ==
    /\ Cardinality(Outcomes(pair)) = 1
    /\ \A i \in Outcomes(pair) : log[i].op = op /\ log[i].ok
NoWrite(pair) ==
    \A i \in Outcomes(pair) :
        log[i].op \notin {"update_obsidian_note", "update_joplin_note"}
\* the note of a side is as the pass read it
JoplinUntouched(pair) ==
    \A n \in jnotes : n.id = pair.joplin.id => n.body = pair.joplin.body
ObsidianUntouched(pair) ==
    \A f \in ofiles : Path(f) = Path(pair.obsidian) => f.body = pair.obsidian.body

\* C10 -- Conflict Resolver truth table: after the matched phase, for every
\* matched pair with both directions open: changed in Joplin only -- the file
\* was overwritten once with the Joplin text and the Joplin note was not
\* written; changed in Obsidian only -- the Joplin note was overwritten once
\* and the file was not written; changed on neither side -- nothing was
\* written.  Each side counts as changed when its own modification time is
\* after the sync time recorded in its own note.
C10_TruthTable ==
    pc = "create_obsidian" =>
        LET pairs == Plan.matched_pairs
        IN  \A i \in 1..Len(pairs) :
                Bidirectional(pairs[i]) =>
                    /\ (a_changed(pairs[i]) /\ ~b_changed(pairs[i])) =>
                           /\ OneOutcome(pairs[i], "update_obsidian_note")
                           /\ JoplinUntouched(pairs[i])
                    /\ (b_changed(pairs[i]) /\ ~a_changed(pairs[i])) =>
                           /\ OneOutcome(pairs[i], "update_joplin_note")
                           /\ ObsidianUntouched(pairs[i])
                    /\ (~a_changed(pairs[i]) /\ ~b_changed(pairs[i])) =>
                           /\ NoWrite(pairs[i])
                           /\ JoplinUntouched(pairs[i])
                           /\ ObsidianUntouched(pairs[i])

\* the matched pairs the running pass propagated with success
Propagated ==
    {i \in OfPhase(3) :
        log[i].op \in {"update_obsidian_note", "update_joplin_note"} /\ log[i].ok}
\* the time generate_sync_info gives in the running pass
PassTime == generate_sync_info("joplin", 0, clock).t
\* the sync times the two notes of a logged operation carry now
JoplinTimes(e) ==
    {extract_sync_info_from_joplin(n.body).t : n \in {m \in jnotes : m.id = e.jid}}
ObsidianTimes(e) ==
    {extract_sync_info_from_obsidian(f.body).t : f \in {g \in ofiles : Path(g) = e.path}}

\* C11 -- Sync time refreshed on propagation: when the pass has propagated a
\* matched pair with success, both notes of the pair carry the time of this
\* pass as their sync time.
C11_SyncTimeRefreshed ==
    pc = "save" =>
        \A i \in Propagated :
            /\ JoplinTimes(log[i]) = {PassTime}
            /\ ObsidianTimes(log[i]) = {PassTime}

\* the creations and propagations the log reports as successful
Successes ==
    {i \in 1..Len(log) :
        /\ log[i].op \in {"sync_joplin_to_obsidian", "sync_obsidian_to_joplin",
                          "update_obsidian_note", "update_joplin_note"}
        /\ log[i].ph \in {"matched", "create_obsidian", "create_joplin"}
        /\ log[i].ok}
\* the ids the extractors recover from the two notes of a logged operation
JoplinIds(e) == {JId(n) : n \in {m \in jnotes : m.id = e.jid}}
ObsidianIds(e) == {OId(f) : f \in {g \in ofiles : Path(g) = e.path}}

\* C12 -- Recoverable identity on both sides: while a pass runs, the Joplin
\* note and the Obsidian file of every creation or propagation reported as
\* successful both carry an id that the extractor of their side recovers, and
\* it is the same id.
C12_RecoverableIdentity ==
    pc \notin {"idle"} =>
        \A i \in Successes :
            \E u \in 1..MaxUuid :
                /\ JoplinIds(log[i]) = {u}
                /\ ObsidianIds(log[i]) = {u}

\* the sync time of a text, by the extractor of its side; -1 when it has none
JoplinTime(body) == extract_sync_info_from_joplin(body).t
ObsidianTime(body) == extract_sync_info_from_obsidian(body).t
\* no note carries an earlier sync time than when the command read it
NotBackdated ==
    /\ \A k \in 1..Len(snapJ) : \A n \in jnotes :
           (n.id = snapJ[k].id /\ JoplinTime(snapJ[k].body) # -1)
               => JoplinTime(n.body) >= JoplinTime(snapJ[k].body)
    /\ \A k \in 1..Len(snapO) : \A f \in ofiles :
           (Path(f) = Path(snapO[k]) /\ ObsidianTime(snapO[k].body) # -1)
               => ObsidianTime(f.body) >= ObsidianTime(snapO[k].body)
\* a note that got its first sync time in the running pass got the time of
\* the pass or a later one
FreshNotEarlier ==
    /\ \A n \in jnotes :
           (JoplinTime(n.body) # -1
            /\ \A k \in 1..Len(snapJ) :
                   snapJ[k].id = n.id => JoplinTime(snapJ[k].body) = -1)
               => JoplinTime(n.body) >= clock
    /\ \A f \in ofiles :
           (ObsidianTime(f.body) # -1 /\ f.folder # TrashName
            /\ \A k \in 1..Len(snapO) :
                   OId(snapO[k]) = OId(f) => ObsidianTime(snapO[k].body) = -1)
               => ObsidianTime(f.body) >= clock

\* C13 -- Sync time only advances: while a command runs, and after it until
\* the user acts, no note carries an earlier sync time than the one it carried
\* when the command read it; a sync time generated by the running pass is not
\* earlier than the moment of the pass.
C13_SyncTimeAdvances ==
    /\ (pc # "idle" \/ log # << >>) => NotBackdated
    /\ pc # "idle" => FreshNotEarlier

\* the metadata records of a text, read line by line: the k-th id, the k-th
\* time and the k-th source belong together
RecordsOf(c) ==
    LET ids == SeqOfKind(c, {"hid", "yid"})
        times == SeqOfKind(c, {"htime", "ytime"})
        srcs == SeqOfKind(c, {"hsrc", "ysrc"})
    IN  IF Len(times) = Len(ids) /\ Len(srcs) = Len(ids)
        THEN [k \in 1..Len(ids) |->
                 [id |-> ids[k].a, t |-> times[k].a, j |-> times[k].b, src |-> srcs[k].s]]
        ELSE << >>
\* the records of a text that carry its latest sync time
LatestRecords(c) ==
    {RecordsOf(c)[k] : k \in {h \in 1..Len(RecordsOf(c)) :
        \A g \in 1..Len(RecordsOf(c)) : RecordsOf(c)[g].t <= RecordsOf(c)[h].t}}

\* C14 -- Duplicate metadata collapse: clean_duplicate_sync_info turns a text
\* with two metadata records into a text with exactly one record, which has
\* the id, the sync time and the source of a record with the latest sync time
\* of the text; the user's text is unchanged.
C14_Collapse ==
    (target = "clean" /\ Len(RecordsOf(original)) >= 2) =>
        /\ MetadataBlocks(content) = 1
        /\ Len(RecordsOf(content)) = 1
        /\ \E m \in LatestRecords(original) : RecordsOf(content)[1] = m
        /\ UserText(content) = UserText(original)

\* C15 -- Preview writes nothing: the command sync without --force, with any
\* answer but "clean duplicates first", leaves every Joplin note, every file
\* of the vault and the state file as they are.
C15_PreviewWritesNothing == [][Preview => UNCHANGED <<jnotes, ofiles, cache>>]_vars

\* the operations of a pass that create, overwrite, move or delete a Joplin
\* note, and those that do so to a file of the vault
JoplinWrites ==
    {"safe_delete_joplin_note", "move_joplin_note", "update_joplin_note",
     "sync_obsidian_to_joplin"}
ObsidianWrites ==
    {"safe_delete_obsidian_file", "move_obsidian_file", "update_obsidian_note",
     "sync_joplin_to_obsidian"}

\* C16 -- Direction restriction: under --joplin-to-obsidian no phase of the
\* pass (deletion, move, propagation, creation) creates, overwrites, moves or
\* deletes a Joplin note, and under --obsidian-to-joplin none does so to a
\* file of the vault.
C16_DirectionRestriction ==
    PassLog => \A i \in Performed(log) :
        /\ run.dir = "joplin_to_obsidian" => log[i].op \notin JoplinWrites
        /\ run.dir = "obsidian_to_joplin" => log[i].op \notin ObsidianWrites

\* the notes a command moved to the holding area
Trashed ==
    {i \in Performed(log) :
        log[i].op \in {"safe_delete_joplin_note", "safe_delete_obsidian_file"}}

\* C17 -- Duplicate resolution is never automatic: a note goes to the holding
\* area as a duplicate only after a decision on which copy to keep.  The pass
\* and the command clean-duplicates are given no such decision, so the only
\* notes they move to the holding area are those of the confirmed deletion
\* phase (and those of the confirmed bulk deletion).
C17_NeverAutomatic == \A i \in Trashed : log[i].ph \in {"deletions", "bulk"}

\* C18 -- Hard abort: once the user has answered "q" at a prompt of
\* manual_confirm_sync, no further update or creation is started in that run,
\* in the phase of the prompt or in a later one.
C18_HardAbort ==
    \A i \in 1..Len(log) : \A k \in (i + 1)..Len(log) :
        log[i].op = "quit" => log[k].op \notin NoteOps

\* C19 -- Unreadable state store is fatal: when the state file is there and
\* cannot be parsed, the pass stops before any write; so as long as the file
\* is in that condition no phase of a running pass has carried out an
\* operation on a note.
C19_UnreadableIsFatal ==
    (pc # "idle" /\ cache.damaged) => \A i \in 1..Len(log) : log[i].op \notin NoteOps

\* the ids carried by the live notes of each side
LiveJoplinIds == {JId(n) : n \in {m \in jnotes : m.nb # TrashName}} \ {0}
LiveObsidianIds == {OId(f) : f \in {g \in ofiles : g.folder # TrashName}} \ {0}
\* the state file as the last pass left it: nothing was declined and nothing
\* happened since
FreshlySaved == pc = "idle" /\ streak > 0 /\ cache.exists /\ ~cache.damaged

\* C20 -- Persisted state reflects only successful syncs: after a pass the
\* state file has an entry for an id on a side only if the note with that id
\* is synced on both sides, so the id is carried by a note of Joplin and by a
\* file of the vault.
C20_OnlySuccessfulSyncs ==
    FreshlySaved =>
        \A u \in CacheIds(cache.joplin_notes) \cup CacheIds(cache.obsidian_notes) :
            u \in LiveJoplinIds /\ u \in LiveObsidianIds

\* the creations and the moves the log of the last pass reports as successful
CreatedOrMoved ==
    {i \in 1..Len(log) :
        /\ log[i].op \in {"sync_joplin_to_obsidian", "sync_obsidian_to_joplin",
                          "move_obsidian_file", "move_joplin_note"}
        /\ log[i].ph \in {"moves", "create_obsidian", "create_joplin"}
        /\ log[i].ok}
\* the state file has id u on both sides, at the place where the note of each
\* side is now
LocatedAsSaved(u) ==
    /\ u \in CacheIds(cache.joplin_notes)
    /\ u \in CacheIds(cache.obsidian_notes)
    /\ \E n \in jnotes :
           /\ JId(n) = u
           /\ CacheEntry(cache.joplin_notes, u).id = n.id
           /\ CacheEntry(cache.joplin_notes, u).notebook = n.nb
    /\ \E f \in ofiles :
           /\ OId(f) = u
           /\ CacheEntry(cache.obsidian_notes, u).title = f.name
           /\ CacheEntry(cache.obsidian_notes, u).folder = f.folder

\* C21 -- Store lifecycle: after a pass that created a counterpart or mirrored
\* a move with success, the state file holds an entry for the id of that note
\* on both sides, with the Joplin notebook and the Obsidian file and folder the
\* note has after the operation.
C21_StoreLifecycle ==
    (FreshlySaved /\ PassLog) =>
        \A i \in CreatedOrMoved :
            \A u \in JoplinIds(log[i]) \ {0} : LocatedAsSaved(u)

\* the note operations of the log that failed
Failed == {i \in 1..Len(log) : log[i].op \in NoteOps /\ ~log[i].ok}

Transient == {"timeout", "connection", "408", "504"}
\* C23 -- Bounded retry: a creation on Joplin sends at most max_retries + 1
\* requests and ends in success or failure; another request is sent only
\* after a timeout, a connection error or a status 408 or 504; for a text
\* that validate_note_content refuses no request is sent.
C23_BoundedRetry ==
    /\ post.sent <= max_retries + 1
    /\ post.retried \subseteq Transient
    /\ ~post.valid => post.sent = 0

\* the rule of a container name, as test_sync_rule_filtering works it out
Classify(name) ==
    IF MatchesAny(name, rules.skip_sync) THEN "skip_sync"
    ELSE IF MatchesAny(name, rules.joplin_to_obsidian_only) THEN "joplin_to_obsidian_only"
    ELSE IF MatchesAny(name, rules.obsidian_to_joplin_only) THEN "obsidian_to_joplin_only"
    ELSE "bidirectional"
\* the operations of the pass that carry a note from one side to the other
ToObsidian == {i \in 1..Len(log) : /\ log[i].ok
                                    /\ log[i].op \in {"sync_joplin_to_obsidian",
                                                     "update_obsidian_note"}}
ToJoplin == {i \in 1..Len(log) : /\ log[i].ok
                                  /\ log[i].op \in {"sync_obsidian_to_joplin",
                                                   "update_joplin_note"}}
\* the notebook of the Joplin note and the folder of the file of an operation
NotebooksOf(e) == {n.nb : n \in {m \in jnotes : m.id = e.jid}}
FolderOf(e) == e.path.folder
\* C24 -- Sync-rule classification: under the precedence skip_sync,
\* joplin_to_obsidian_only, obsidian_to_joplin_only, bidirectional, no
\* operation of a pass works on a note of a skip_sync container, no note of
\* a joplin_to_obsidian_only folder goes from Obsidian to Joplin, and no note
\* of a notebook that matches obsidian_to_joplin_only goes from Joplin to
\* Obsidian, also when the name matches joplin_to_obsidian_only as well.
C24_SyncRules ==
    PassLog =>
        /\ \A i \in 1..Len(log) :
              log[i].op \in NoteOps =>
                 /\ Classify(FolderOf(log[i])) # "skip_sync"
                 /\ \A nb \in NotebooksOf(log[i]) : Classify(nb) # "skip_sync"
        /\ \A i \in ToJoplin :
              Classify(FolderOf(log[i])) # "joplin_to_obsidian_only"
        /\ \A i \in ToObsidian : \A nb \in NotebooksOf(log[i]) :
              /\ Classify(nb) # "obsidian_to_joplin_only"
              /\ ~MatchesAny(nb, rules.obsidian_to_joplin_only)

\* the inputs of smart_match_notes in the running pass
MatchJoplin == apply_sync_rules_joplin(snapJ)
MatchObsidian == apply_sync_rules_obsidian(snapO)
SharedIds == IdSet(SeqMap(MatchJoplin, JId)) \cap IdSet(SeqMap(MatchObsidian, OId))
PairsOf(pairs, u) ==
    {i \in 1..Len(pairs) : JId(pairs[i].joplin) = u \/ OId(pairs[i].obsidian) = u}
\* C25 -- Identity match: for every notebridge_id carried by a Joplin note
\* and by an Obsidian note of the inputs of smart_match_notes, the result
\* holds exactly one pair with that id, of match_type "id", made of a Joplin
\* note and an Obsidian note of the inputs that carry the id, and no note
\* with that id is in unmatched_joplin or unmatched_obsidian.
C25_IdentityMatch ==
    pc = "deletions" =>
        Bind(Plan, LAMBDA plan : \A u \in SharedIds :
            /\ Cardinality(PairsOf(plan.matched_pairs, u)) = 1
            /\ \A i \in PairsOf(plan.matched_pairs, u) :
                  /\ plan.matched_pairs[i].match_type = "id"
                  /\ JId(plan.matched_pairs[i].joplin) = u
                  /\ OId(plan.matched_pairs[i].obsidian) = u
                  /\ Exists(MatchJoplin, LAMBDA n : n = plan.matched_pairs[i].joplin)
                  /\ Exists(MatchObsidian, LAMBDA f : f = plan.matched_pairs[i].obsidian)
            /\ ~Exists(plan.unmatched_joplin, LAMBDA n : JId(n) = u)
            /\ ~Exists(plan.unmatched_obsidian, LAMBDA f : OId(f) = u))
C25_Witness ==
    /\ pc = "deletions"
    /\ SharedIds # {}
    /\ Len(MatchObsidian) > Len(Plan.matched_pairs)
    /\ Plan.unmatched_obsidian # << >>

\* the notes of the inputs that smart_match_notes leaves for the match by
\* content: not paired by id, not known to the state file on both sides,
\* and not empty
HashJoplin ==
    NonEmpty(MatchJoplin, Unmatched(SeqMap(MatchJoplin, JId),
                                    SeqMap(MatchObsidian, OId), load_sync_state(cache)))
HashObsidian ==
    NonEmpty(MatchObsidian, Unmatched(SeqMap(MatchObsidian, OId),
                                      SeqMap(MatchJoplin, JId), load_sync_state(cache)))
\* the two texts are equal once the sync metadata is removed
SameText(n, f) == UserText(n.body) = UserText(f.body)
HashPairsOf(pairs, n, f) ==
    {i \in 1..Len(pairs) : /\ pairs[i].match_type = "content_hash"
                           /\ pairs[i].joplin = n \/ pairs[i].obsidian = f}
\* the id of a pair matched by content (lines 806-815): 0 stands for a new
\* UUID
PairId(pair) ==
    IF JId(pair.joplin) # 0 THEN JId(pair.joplin) ELSE OId(pair.obsidian)
\* C26 -- Content-hash fallback: a non-empty Joplin note and a non-empty
\* Obsidian note that were not matched by id and whose texts are equal once
\* the metadata is removed, whether both, one or none of them carries
\* metadata, are returned as one pair of match_type "content_hash": the
\* result holds a pair for them, and neither of the two is in another pair;
\* the id of the pair is the id of one of the two notes, or a new one when
\* neither has an id.
C26_HashFallback ==
    pc = "deletions" =>
        Bind(Plan, LAMBDA plan :
            \A i \in HashJoplin, k \in HashObsidian :
                SameText(MatchJoplin[i], MatchObsidian[k]) =>
                    /\ \E e \in 1..Len(plan.matched_pairs) :
                          /\ plan.matched_pairs[e].match_type = "content_hash"
                          /\ SameText(plan.matched_pairs[e].joplin, MatchObsidian[k])
                          /\ SameText(MatchJoplin[i], plan.matched_pairs[e].obsidian)
                          /\ PairId(plan.matched_pairs[e])
                                \in {JId(plan.matched_pairs[e].joplin),
                                     OId(plan.matched_pairs[e].obsidian)}
                    /\ Cardinality(HashPairsOf(plan.matched_pairs, MatchJoplin[i],
                                               MatchObsidian[k])) <= 1)

\* lines 818-824: the pair was matched by content and one side has no id
needs_sync_info_update(pair) ==
    pair.match_type = "content_hash"
    /\ (JId(pair.joplin) = 0 \/ OId(pair.obsidian) = 0)
\* C27 -- Metadata backfill: at the end of a pass, for every pair that was
\* matched by content and flagged needs_sync_info_update, the Joplin note
\* and the file both carry one and the same notebridge_id, the id assigned to
\* the pair, so that the next pass pairs them by id.
C27_Backfill ==
    (pc = "save" /\ PassLog) =>
        Bind(Plan, LAMBDA plan : \A e \in 1..Len(plan.matched_pairs) :
            needs_sync_info_update(plan.matched_pairs[e]) =>
                \E n \in jnotes, f \in ofiles :
                    /\ n.id = plan.matched_pairs[e].joplin.id
                    /\ Path(f) = Path(plan.matched_pairs[e].obsidian)
                    /\ JId(n) # 0
                    /\ JId(n) = OId(f)
                    /\ PairId(plan.matched_pairs[e]) \in {0, JId(n)})

\* the id is recorded on both sides of the state file the pass loaded
Recorded(u) ==
    /\ u # 0
    /\ load_sync_state(cache).exists
    /\ u \in CacheIds(load_sync_state(cache).joplin_notes)
    /\ u \in CacheIds(load_sync_state(cache).obsidian_notes)
\* the notes of the inputs with a recorded id and no counterpart
LoneJoplin ==
    {i \in 1..Len(MatchJoplin) :
        /\ Recorded(JId(MatchJoplin[i]))
        /\ JId(MatchJoplin[i]) \notin IdSet(SeqMap(MatchObsidian, OId))}
LoneObsidian ==
    {k \in 1..Len(MatchObsidian) :
        /\ Recorded(OId(MatchObsidian[k]))
        /\ OId(MatchObsidian[k]) \notin IdSet(SeqMap(MatchJoplin, JId))}
Creations ==
    {i \in 1..Len(log) : log[i].ph \in {"create_obsidian", "create_joplin"}}
\* C28 -- Previously-synced exclusion: a note with a notebridge_id that the
\* state file records on both sides, and without a counterpart in the
\* current inputs, is in neither unmatched list of the plan, and no creation
\* phase of the pass creates it on the other side.
C28_SyncedExclusion ==
    (pc \in {"deletions", "save"} /\ PassLog) =>
        Bind(Plan, LAMBDA plan :
            /\ \A i \in LoneJoplin :
                  /\ ~Exists(plan.unmatched_joplin, LAMBDA n : n = MatchJoplin[i])
                  /\ \A e \in Creations : log[e].jid # MatchJoplin[i].id
            /\ \A k \in LoneObsidian :
                  /\ ~Exists(plan.unmatched_obsidian, LAMBDA f : f = MatchObsidian[k])
                  /\ \A e \in Creations :
                        log[e].op = "sync_obsidian_to_joplin"
                            => log[e].path # Path(MatchObsidian[k]))
C28_Witness ==
    /\ pc = "save"
    /\ PassLog
    /\ answers.deletions = "no"
    /\ \E i \in LoneJoplin : \E n \in jnotes : n.id = MatchJoplin[i].id
    /\ Creations = {}

Empty(body) == \A i \in 1..Len(body) : body[i].k = "blank"
Moves == detect_moves(current_joplin_notes, current_obsidian_notes,
                      load_sync_state(cache))
CountOf(items, u) == Cardinality({i \in 1..Len(items) : items[i].notebridge_id = u})
\* the ids that the state file and the snapshot of a side both hold, with a
\* counterpart in the snapshot of the other side
KeptJoplin ==
    CacheIds(load_sync_state(cache).joplin_notes)
    \cap IdSet(SeqMap(current_joplin_notes, JId))
    \cap IdSet(SeqMap(current_obsidian_notes, OId))
KeptObsidian ==
    CacheIds(load_sync_state(cache).obsidian_notes)
    \cap IdSet(SeqMap(current_joplin_notes, JId))
    \cap IdSet(SeqMap(current_obsidian_notes, OId))
JoplinMoved(u) ==
    CacheEntry(load_sync_state(cache).joplin_notes, u).notebook
        # current_joplin_notes[LastIdx(SeqMap(current_joplin_notes, JId), u)].nb
ObsidianMoved(u) ==
    CacheEntry(load_sync_state(cache).obsidian_notes, u).folder
        # current_obsidian_notes[LastIdx(SeqMap(current_obsidian_notes, OId), u)].folder
C30_WitnessObsidian ==
    /\ pc = "matched" /\ answers.moves = "yes" /\ run.put
    /\ load_sync_state(cache).exists
    /\ Moves.joplin_moves = << >>
    /\ Moves.obsidian_moves # << >>

\* the deletions the running pass detects
Queued == detect_deletions(current_joplin_notes, current_obsidian_notes,
                           load_sync_state(cache))
CurrentJoplinIds == IdSet(SeqMap(current_joplin_notes, JId))
CurrentObsidianIds == IdSet(SeqMap(current_obsidian_notes, OId))
\* C31 -- Deletion queueing: detect_deletions queues a deletion on a side for
\* an id only when the state file holds the id for the other side, the
\* current snapshot of the other side does not, and a note of the side
\* carries the id now.
C31_DeletionQueueing ==
    pc = "deletions" =>
        Bind(Queued, LAMBDA d :
            /\ \A i \in 1..Len(d.joplin_deletions) :
                  /\ d.joplin_deletions[i].nid
                        \in CacheIds(load_sync_state(cache).joplin_notes)
                  /\ d.joplin_deletions[i].nid \notin CurrentJoplinIds
                  /\ d.joplin_deletions[i].nid \in CurrentObsidianIds
            /\ \A i \in 1..Len(d.obsidian_deletions) :
                  /\ d.obsidian_deletions[i].nid
                        \in CacheIds(load_sync_state(cache).obsidian_notes)
                  /\ d.obsidian_deletions[i].nid \notin CurrentObsidianIds
                  /\ d.obsidian_deletions[i].nid \in CurrentJoplinIds)

\* ------------------------------------- the matching of notes with ids
\* a body with an id in a YAML block and another in an HTML comment, and no
\* sync time: clean_duplicate_sync_info returns it as it is (line 95)
TwoIdBody(u, v) ==
    <<Fence, L("yid", v, 0, ""), Fence, L("hid", u, 0, "")>> \o UserBody(1)
IdBodies ==
    {UserBody(1), UserBody(2), HtmlBlock(Record(0)) \o UserBody(1),
     <<Fence>> \o YamlBlock([Record(0) EXCEPT !.id = 2]) \o <<Fence, Blank>> \o UserBody(1)}
    \cup {TwoIdBody(u, v) : u \in 1..2, v \in 1..2}
    \cup {<<L("hid", u, 0, "")>> \o UserBody(1) : u \in 1..2}
InitIds ==
    /\ Installed(DefaultEnv)
    /\ \E b \in IdBodies : jnotes = {[NewNote(1, "a", "N1", 0) EXCEPT !.body = b]}
    /\ \E b \in IdBodies : ofiles = {[NewFile("a", "N1", 1, 0) EXCEPT !.body = b]}
    /\ StartedWith(3, NoCache)
    /\ content = << >>
    /\ given = NoInfo
    /\ target = "none"
    /\ embeds = 0
    /\ original = << >>
    /\ post = NoPost
    /\ tree = NoTree
SpecIds == InitIds /\ [][NextMatch]_vars

\* C32 -- Hash collision with two different ids: smart_match_notes returns no
\* pair of match_type "content_hash" whose Joplin note and Obsidian note each
\* carry an id, the two ids being different.
C32_TwoIdsNoMatch ==
    pc = "deletions" =>
        Bind(Plan, LAMBDA plan :
            \A e \in 1..Len(plan.matched_pairs) :
                plan.matched_pairs[e].match_type = "content_hash" =>
                    ~ /\ JId(plan.matched_pairs[e].joplin) # 0
                      /\ OId(plan.matched_pairs[e].obsidian) # 0
                      /\ JId(plan.matched_pairs[e].joplin)
                            # OId(plan.matched_pairs[e].obsidian))

\* C33 -- Deletion hits only the counterpart: after a deletion phase that was
\* confirmed, every file that the phase moved to the holding area carried,
\* when the pass read the vault, the id of a Joplin note that detect_deletions
\* found deleted.
C33_OnlyCounterpart ==
    (pc = "moves" /\ answers.deletions = "yes") =>
        Bind(Queued, LAMBDA d :
            \A i \in 1..Len(log) :
                (log[i].op = "safe_delete_obsidian_file" /\ log[i].ok) =>
                    \E k \in 1..Len(snapO) :
                        /\ Path(snapO[k]) = log[i].path
                        /\ OId(snapO[k]) \in CacheIds(d.joplin_deletions))

\* the successful creations of the running pass
Created(ph) == {i \in 1..Len(log) : log[i].ph = ph /\ log[i].ok}
\* C34 -- No resurrection: in a pass that follows a completed pass with no
\* change from outside in between, no note is created from a note that lies
\* in a holding area: the creation phases take no file of the holding folder
\* and no note of the holding notebook as a note to create from, so that no
\* second note with the id or the content of a mirrored deletion comes up.
C34_NoResurrection ==
    (pc = "save" /\ streak >= 1) =>
        /\ \A i \in Created("create_joplin") : log[i].path.folder # TrashName
        /\ \A i \in Created("create_obsidian") :
              \A n \in jnotes : n.id = log[i].jid => n.nb # TrashName

\* a pass whose deletion phase was declined has ended, and both sides and the
\* state file are as that pass read and wrote them: the next pass reads the
\* snapshots of this one
AfterDecline ==
    /\ pc = "idle" /\ answers.deletions = "no" /\ PassLog
    /\ get_joplin_notes(jnotes) = snapJ
    /\ get_obsidian_notes(ofiles, WriteTime).notes = snapO
    /\ cache = save_sync_state(current_joplin_notes, current_obsidian_notes)
\* C35 -- Declined deletion stays pending: after a pass whose deletion phase
\* the user declined, with no change from outside, detect_deletions of the
\* next pass reports deletions again, and the plan of the next pass holds no
\* surviving counterpart (a note whose id the other side lacks) among the
\* notes to create.
C35_DeclinedPending ==
    AfterDecline =>
        /\ Queued.joplin_deletions # << >> \/ Queued.obsidian_deletions # << >>
        /\ Bind(Plan, LAMBDA plan :
              /\ \A i \in 1..Len(plan.unmatched_joplin) :
                    JId(plan.unmatched_joplin[i]) \in {0} \cup CurrentObsidianIds
              /\ \A i \in 1..Len(plan.unmatched_obsidian) :
                    OId(plan.unmatched_obsidian[i]) \in {0} \cup CurrentJoplinIds)

\* C36 -- Matching is a partial one-to-one pairing: in the result of
\* smart_match_notes no Joplin note and no Obsidian note is in two matched
\* pairs, and no note of a matched pair is among the unmatched notes of its
\* side.
C36_OneToOne ==
    pc = "deletions" =>
        Bind(Plan, LAMBDA plan :
            /\ \A e1, e2 \in 1..Len(plan.matched_pairs) :
                  e1 # e2 =>
                      /\ plan.matched_pairs[e1].joplin.id
                            # plan.matched_pairs[e2].joplin.id
                      /\ Path(plan.matched_pairs[e1].obsidian)
                            # Path(plan.matched_pairs[e2].obsidian)
            /\ \A e \in 1..Len(plan.matched_pairs) :
                  /\ \A i \in 1..Len(plan.unmatched_joplin) :
                        plan.unmatched_joplin[i].id # plan.matched_pairs[e].joplin.id
                  /\ \A i \in 1..Len(plan.unmatched_obsidian) :
                        Path(plan.unmatched_obsidian[i])
                            # Path(plan.matched_pairs[e].obsidian))

\* a container from which notes go one way only
OneWay(name) == Classify(name) \in {"joplin_to_obsidian_only", "obsidian_to_joplin_only"}
\* C37 -- Rule filtering does not hide an existing counterpart: a note of a
\* one-way container whose id a note of the other side carries is not among
\* the new notes of the plan, and no creation phase creates a note from it.
C37_OneWayOnce ==
    /\ pc = "deletions" =>
          Bind(Plan, LAMBDA plan :
              /\ \A i \in 1..Len(plan.unmatched_obsidian) :
                    OneWay(plan.unmatched_obsidian[i].folder) =>
                        OId(plan.unmatched_obsidian[i]) \notin SnapJoplinIds
              /\ \A i \in 1..Len(plan.unmatched_joplin) :
                    OneWay(plan.unmatched_joplin[i].nb) =>
                        JId(plan.unmatched_joplin[i]) \notin SnapObsidianIds)
    /\ pc = "save" =>
          /\ \A i \in Created("create_joplin") :
                OneWay(log[i].path.folder) =>
                    \A k \in 1..Len(snapO) :
                        Path(snapO[k]) = log[i].path => OId(snapO[k]) \notin SnapJoplinIds
          /\ \A i \in Created("create_obsidian") :
                \A k \in 1..Len(snapJ) :
                    (snapJ[k].id = log[i].jid /\ OneWay(snapJ[k].nb)) =>
                        JId(snapJ[k]) \notin SnapObsidianIds

\* the path of a folder from the top
RECURSIVE FullPath(_, _)
FullPath(f, folders) ==
    IF f.parent = 0 THEN <<f.title>>
    ELSE FullPath(CHOOSE g \in folders : g.id = f.parent, folders) \o <<f.title>>
\* C38 -- Container get-or-create is idempotent: whatever calls of
\* get_or_create_joplin_notebook were made, within or after the lifetime of
\* the cache and after failed listings, Joplin holds at most one notebook per
\* full path, and the last call returned the id of the notebook of its path.
C38_GetOrCreateOnce ==
    /\ \A f, g \in tree.folders :
          (f.title = g.title /\ f.parent = g.parent) => f = g
    /\ tree.path # << >> =>
          /\ ~tree.err
          /\ \E f \in tree.folders :
                f.id = tree.ret /\ FullPath(f, tree.folders) = tree.path

\* the ids of the notes that a side holds in a skip_sync container
ExcludedJoplinIds == {JId(n) : n \in {m \in jnotes : Skipped(m.nb)}} \ {0}
ExcludedObsidianIds == {OId(f) : f \in {g \in ofiles : Skipped(g.folder)}} \ {0}
\* C39 -- Excluding is not deleting: detect_deletions queues no deletion for an
\* id that a note of a skip_sync container of the side in question carries,
\* and a confirmed deletion phase moves no counterpart of such a note to the
\* holding area.
C39_ExcludedNotDeleted ==
    /\ pc = "deletions" =>
          Bind(Queued, LAMBDA d :
              /\ CacheIds(d.joplin_deletions) \cap ExcludedJoplinIds = {}
              /\ \A i \in 1..Len(d.obsidian_deletions) :
                    d.obsidian_deletions[i].nid \notin ExcludedObsidianIds)
    /\ (pc = "moves" /\ answers.deletions = "yes") =>
          \A i \in 1..Len(log) :
              /\ (log[i].op = "safe_delete_joplin_note" /\ log[i].ok) =>
                    \A n \in jnotes : n.id = log[i].jid => JId(n) \notin ExcludedObsidianIds
              /\ (log[i].op = "safe_delete_obsidian_file" /\ log[i].ok) =>
                    \A k \in 1..Len(snapO) :
                        Path(snapO[k]) = log[i].path => OId(snapO[k]) \notin ExcludedJoplinIds

\* the files that the move phase of the running pass relocated, by the Joplin
\* note they belong to
Relocated ==
    {log[i].jid : i \in {k \in 1..Len(log) :
        log[k].ph = "moves" /\ log[k].op = "move_obsidian_file" /\ log[k].ok}}
\* C40 -- Later phases see the effects of earlier phases: when the move phase
\* of a pass relocated the file of a pair, a propagation from Joplin to
\* Obsidian for that pair in the same pass succeeds and is applied to a file
\* that is there after the move.
C40_PhasesSeeMoves ==
    (pc = "create_obsidian" /\ answers.moves = "yes") =>
        \A i \in 1..Len(log) :
            (/\ log[i].ph = "matched"
             /\ log[i].op = "update_obsidian_note"
             /\ log[i].jid \in Relocated) =>
                log[i].ok /\ PathExists(ofiles, log[i].path)

=============================================================================
